---- MODULE Spec2Model ----
(***************************************************************************)
(* Model of the messengor chat server: the identity store                  *)
(* (internal/server/auth_store.go), the connection gate                    *)
(* (HandleWebSocketConnections), the per-session read and write pumps      *)
(* (internal/server/client.go), the hub loop (internal/server/hub.go) and  *)
(* the history store (SaveMessage).                                        *)
(*                                                                         *)
(* Spec      the server: connections pass the gate, are registered with    *)
(*           the hub, broadcast text, are evicted or torn down.            *)
(* SpecAuth  the identity store alone, with RegisterNewUser and            *)
(*           AuthenticateUser run by concurrent callers one lock operation *)
(*           at a time.                                                    *)
(* SpecDirect three logged-in sessions sending private messages and        *)
(*           history requests.                                             *)
(* SpecLoad  one history request over a stored global chat of any length.  *)
(* SpecGate  the gate with its read deadline and the passage of time.      *)
(* SpecSession three logged-in sessions sending private messages, user     *)
(*           list requests and frames readPump does not accept.            *)
(* SpecCorrupt the identity store started on a file that does not parse.   *)
(* SpecSaveFail two sessions sending text while SaveMessage may fail.      *)
(* SpecFrames one connection in the gate and one session: every kind of    *)
(*           frame the server answers with.                                *)
(* SpecHub   the hub loop writing Hub.clients step by step while read      *)
(*           pumps list and look up sessions.                              *)
(* SpecOrder two sessions whose queues are filled by broadcasts and by     *)
(*           replies and emptied by their write pumps.                     *)
(* SpecWire  the write pump with the text frames it writes kept.           *)
(* SpecExit  the ways a write pump and its read pump end.                  *)
(* SpecStore SaveMessage and LoadChatHistory run by concurrent callers     *)
(*           one lock operation and one file operation at a time.          *)
(* SpecTail  history requests and appends over a file of any lines.        *)
(* SpecTeardown a private message whose target leaves between the lookup   *)
(*           and the notify.                                               *)
(* SpecLive  logins, broadcasts and departures with the hub loop scheduled *)
(*           fairly.                                                       *)
(* SpecEvict a session whose queue is full when a broadcast arrives.       *)
(***************************************************************************)
EXTENDS Integers, Sequences, FiniteSets, TLC

\* ------------------------------------------------------------------ bounds

\* Capacity of a session's outbound queue (make(chan []byte, 256) in the
\* source), scaled down so that a full queue is reachable.
SendCap == 2

\* Number of inbound frames all authenticated sessions together may send.
MaxFrames == 3

\* Number of calls each caller of the identity store makes under SpecAuth,
\* and each caller of the history store under SpecStore.
MaxCalls == 2

\* Number of inbound frames all sessions together may send under SpecDirect.
MaxDirect == 2

\* The gate's read deadline (60 seconds in the source), in clock ticks.
GateDeadline == 2

\* Number of frames all connections together send to the gate under SpecGate.
MaxGate == 2

\* Largest number of lines in the global chat's file under SpecTail.
MaxLines == 3

\* Largest number of broadcasts stored before the request of SpecLoad.
MaxStored == 120

\* ------------------------------------------------------------- input sets

Conns == {"c1", "c2"}

Usernames == {"alice", "bob"}

Passwords == {"pw1", "pw2"}

Texts == {"hi"}

\* Identifiers uuid.NewString() may return; one per username is enough for
\* every user of the store to have its own.
UserIDs == {"A", "B", "C"}

VARIABLES
    userStore,   \* auth_store.go userStore: username -> User (a Go map)
    userFile,    \* contents of users_data.json
    cpc,         \* per connection: where its handler goroutine stands
    cuser,       \* per connection: the Client's UserID / DisplayName
    gateReply,   \* per connection: the last frame the gate wrote to it
    connOpen,    \* per connection: conn.Close() not yet called
    send,        \* per connection: contents of Client.send
    sendClosed,  \* per connection: close(client.send) has run
    wpc,         \* per connection: where its writePump stands
    delivered,   \* per connection: the messages writePump took from send and wrote,
                 \* in order (the newline bytes written between them are not recorded)
    pending,     \* per connection: the frame readPump is submitting to the hub
    clients,     \* Hub.clients
    slowTask,    \* per connection: its slow-consumer goroutine ("none", "waiting", "done")
    accepted,    \* broadcast frames in the order the hub received them
    history,     \* chat id -> lines of its .jsonl file
    nframes,     \* inbound frames handled by authenticated sessions so far
    panicked,    \* the runtime panic that ended the process, or "none"
    apc,         \* SpecAuth: per caller, the statement it stands at
    acall,       \* SpecAuth: per caller, the call in progress and its locals
    mutexW,      \* SpecAuth: holder of userStoreMutex's write lock, or NoProc
    mutexR,      \* SpecAuth: holders of userStoreMutex's read lock
    ncalls,      \* SpecAuth: per caller, calls started
    regDone,     \* SpecAuth: username -> the Register calls that returned success
    regFailed,   \* SpecAuth: usernames a Register call failed to persist
    request,     \* per connection: the directed request its readPump handled last
    gateFrame,   \* SpecGate: per connection, the frame the gate handled last
    gateLeft,    \* SpecGate: per connection, time left until its read deadline
    gateQuiet,   \* SpecGate: per connection, time since its peer last sent a frame
    gateFails,   \* SpecGate: per connection, requests the gate answered success=false
    hubWriting,  \* SpecHub: the connection whose command Hub.Run is carrying out
                 \* on Hub.clients, or NoConn
    hubReaders,  \* SpecHub: the read pumps that hold the shared lock of the set
    wire,        \* SpecWire: per connection, the text frames writePump wrote, each
                 \* with the newline bytes that follow its message
    storeCall,   \* SpecStore: per caller of the history store, the call in
                 \* progress, the statement it stands at and its locals
    storeMutexes \* SpecStore: the holder of globalHistoryMutex, and
                 \* historyFileMutexes with the holder of each mutex

sysVars == <<cpc, cuser, gateReply, connOpen, send, sendClosed,
             wpc, delivered, pending, clients, slowTask, accepted, history,
             nframes, panicked>>

authVars == <<apc, acall, mutexW, mutexR, ncalls, regDone, regFailed>>

gateVars == <<gateFrame, gateLeft, gateQuiet, gateFails>>

hubVars == <<hubWriting, hubReaders>>

storeVars == <<storeCall, storeMutexes>>

vars == <<userStore, userFile, sysVars, authVars, request, gateVars, hubVars, wire,
          storeVars>>

\* --------------------------------------------------------- identity store

EmptyStore == [u \in {} |-> u]

\* bcrypt.GenerateFromPassword: the verifier of a password.
GenerateFromPassword(password) == [alg |-> "bcrypt", of |-> password]

\* CompareHashAndPassword accepting every password.
CompareAlways(hash, password) == TRUE

\* bcrypt.CompareHashAndPassword: nil exactly when the verifier was made
\* from this password.
CompareHashAndPassword(hash, password) == hash = GenerateFromPassword(password)

\* uuid.NewString(): an identifier no user of the store bears.
NewUserID(store) ==
    CHOOSE id \in UserIDs : \A u \in DOMAIN store : store[u].id # id

NewUser(store, username, password, displayName) ==
    [id |-> NewUserID(store), username |-> username,
     hash |-> GenerateFromPassword(password), display |-> displayName]

\* userStore[username] = newUser
StoreInsert(store, username, user) ==
    [u \in DOMAIN store \cup {username} |->
        IF u = username THEN user ELSE store[u]]

\* StoreDelete with the delete left out.
StoreDeleteNothing(store, username) == store

\* delete(userStore, username)
StoreDelete(store, username) ==
    [u \in DOMAIN store \ {username} |-> store[u]]

\* The identity file: a whole JSON document, or what a failed write left.
FileOf(store) == [valid |-> TRUE, users |-> store]

TruncatedFile == [valid |-> FALSE, users |-> EmptyStore]

\* Outcomes of os.WriteFile: written; failed before the file was opened
\* (file untouched); failed after O_TRUNC (file cut short).
SaveOutcomes == {"ok", "failUntouched", "failTruncated"}

\* saveUsersToFile: the file after the call.
saveUsersToFile(store, file, outcome) ==
    CASE outcome = "ok" -> FileOf(store)
      [] outcome = "failUntouched" -> file
      [] OTHER -> TruncatedFile

NoUser == [id |-> "", username |-> "", hash |-> [alg |-> "", of |-> ""], display |-> ""]

\* RegisterNewUser as one call under the write lock: its error, the user it
\* returns, and the store and file it leaves.  hashOk is whether
\* bcrypt.GenerateFromPassword succeeded, outcome what os.WriteFile did.
RegisterNewUser(store, file, username, password, displayName, hashOk, outcome) ==
    IF username \in DOMAIN store
    THEN [err |-> "username is already taken", user |-> NoUser,
          store |-> store, file |-> file]
    ELSE IF ~hashOk
    THEN [err |-> "failed to hash password", user |-> NoUser,
          store |-> store, file |-> file]
    ELSE LET newUser == NewUser(store, username, password, displayName)
             inserted == StoreInsert(store, username, newUser)
             written == saveUsersToFile(inserted, file, outcome)
         IN  IF outcome # "ok"
             THEN [err |-> "failed to save new user to persistent store",
                   user |-> NoUser,
                   store |-> StoreDelete(inserted, username), file |-> written]
             ELSE [err |-> "", user |-> newUser,
                   store |-> inserted, file |-> written]

\* AuthenticateUser as one call: its error and the user it returns.
AuthenticateUser(store, username, password) ==
    IF username \notin DOMAIN store
    THEN [err |-> "user not found", user |-> NoUser]
    ELSE IF ~CompareHashAndPassword(store[username].hash, password)
    THEN [err |-> "invalid password", user |-> NoUser]
    ELSE [err |-> "", user |-> store[username]]

\* Display names REGISTER_REQUEST frames carry under Spec.
GateDisplayNames == {"Ann"}

\* ------------------------------------------------------------ wire frames

NoFrame == [type |-> "none"]

RegisterResponse(success, userID, errorMessage) ==
    [type |-> "REGISTER_RESPONSE", success |-> success, user_id |-> userID,
     error_message |-> errorMessage]

\* LoginResponse made of the whole User record, which the store serializes
\* with its password_hash.
LoginResponseOfUser(success, user, errorMessage) ==
    [type |-> "LOGIN_RESPONSE", success |-> success, user_id |-> user.id,
     display_name |-> user.display, password_hash |-> user.hash,
     error_message |-> errorMessage]

LoginResponse(success, user, errorMessage) ==
    [type |-> "LOGIN_RESPONSE", success |-> success, user_id |-> user.id,
     display_name |-> user.display, error_message |-> errorMessage]

\* BROADCAST_TEXT_MESSAGE as readPump serializes it; n numbers the inbound
\* frame it was made from, which tells apart two frames of equal content.
BroadcastText(user, text, n) ==
    [type |-> "BROADCAST_TEXT_MESSAGE", sender_id |-> user.id,
     sender_name |-> user.display, text |-> text, n |-> n]

ErrorNotify(errorCode) == [type |-> "ERROR_NOTIFY", error_code |-> errorCode]

\* MessageID: "" of a notify, message identifiers being numbered from 1.
NoMessageID == 0

\* NEW_PRIVATE_MESSAGE_NOTIFY as readPump builds it before it looks at what
\* SaveMessage returned: no message identifier, its own reading of the clock.
NewPrivateMessageNotify(chatID, sender, receiverID, text, now) ==
    [type |-> "NEW_PRIVATE_MESSAGE_NOTIFY", chat_id |-> chatID,
     message_id |-> NoMessageID, sender_id |-> sender.id,
     sender_name |-> sender.display,
     receiver_id |-> receiverID, text |-> text, timestamp |-> now]

\* Requests as readPump decodes them; n numbers the inbound frame.
PrivateMessageRequest(targetUserID, text, n) ==
    [type |-> "SEND_PRIVATE_MESSAGE_REQUEST", target_user_id |-> targetUserID,
     text |-> text, n |-> n]

ChatHistoryRequest(chatID, limit, n) ==
    [type |-> "GET_CHAT_HISTORY_REQUEST", chat_id |-> chatID, limit |-> limit,
     n |-> n]

ChatHistoryResponse(chatID, messages) ==
    [type |-> "CHAT_HISTORY_RESPONSE", chat_id |-> chatID, messages |-> messages]

\* ---------------------------------------------------------- history store

\* A chat identifier is kept as the parts strings.Split(chatID, ":") gives:
\* "global_broadcast" is one part, "private:A:B" is three.
GlobalChatID == <<"global_broadcast">>

\* The empty chat identifier "".
EmptyChatID == <<"">>

\* The strings that user identifiers are drawn from, in the byte order
\* sort.Strings puts them in.
StringOrder == <<"", "A", "B", "C", "D">>

StringIndex(str) == CHOOSE i \in 1..Len(StringOrder) : StringOrder[i] = str

\* ids as they come, without the sort.
UnsortedStrings(ids) == ids

\* sort.Strings on a slice of two strings.
SortStrings(ids) ==
    IF StringIndex(ids[1]) <= StringIndex(ids[2]) THEN ids ELSE <<ids[2], ids[1]>>

\* GeneratePrivateChatID: its error and the identifier it returns.
GeneratePrivateChatID(userID1, userID2) ==
    IF userID1 = "" \/ userID2 = ""
    THEN [err |-> "user IDs cannot be empty for generating chat ID",
          id |-> EmptyChatID]
    ELSE LET ids == SortStrings(<<userID1, userID2>>)
         IN  [err |-> "", id |-> <<"private", ids[1], ids[2]>>]

\* Display names too long for a line of the history file to fit in the
\* buffer of bufio.Scanner (64 KiB); the gate reads REGISTER_REQUEST frames
\* of any size and RegisterNewUser stores the name as it comes.
OversizeNames == {"Zed, followed by 70000 more letters"}

\* The record SaveMessage builds; messageID stands for uuid.NewString(),
\* now for time.Now().Unix().
StoredMessage(chatID, user, text, messageID, now) ==
    [chat_id |-> chatID, message_id |-> messageID, sender_id |-> user.id,
     sender_name |-> user.display, text |-> text, timestamp |-> now]

\* Readings of the clock (time.Now().Unix()); Epoch is the reading at every
\* SaveMessage of Spec.
Epoch == "t0"

Times == {"t0", "t1"}

\* SaveMessage: the history files after the call (O_APPEND|O_CREATE); an
\* empty chat identifier, a failed open or a failed write leaves them as
\* they were.
SaveMessage(hist, chatID, user, text, n, now, ok) ==
    IF chatID = EmptyChatID \/ ~ok
    THEN hist
    ELSE [ch \in DOMAIN hist \cup {chatID} |->
            IF ch = chatID
            THEN Append(IF ch \in DOMAIN hist THEN hist[ch] ELSE << >>,
                        StoredMessage(chatID, user, text, n, now))
            ELSE hist[ch]]

\* The first bytes of the record with this identifier, its line not ended:
\* a line that is not JSON.
TornLine(messageID) == [torn |-> messageID]

\* json.Unmarshal(scanner.Bytes(), &msg) returns no error.
Decodes(line) == "message_id" \in DOMAIN line

\* A line bufio.Scanner cannot hold: Scan stops and Err is ErrTooLong.
LineTooLong(line) == Decodes(line) /\ line.sender_name \in OversizeNames

\* messages[len(messages)-limit:] when limit > 0 && len(messages) > limit
LastMessages(messages, limit) ==
    IF limit > 0 /\ Len(messages) > limit
    THEN SubSeq(messages, Len(messages) - limit + 1, Len(messages))
    ELSE messages

\* LoadChatHistory: its error and the messages it returns; a line that
\* does not decode is passed over.
LoadChatHistory(hist, chatID, limit) ==
    IF chatID = EmptyChatID
    THEN [err |-> "chatID cannot be empty", messages |-> << >>]
    ELSE IF chatID \notin DOMAIN hist
    THEN [err |-> "", messages |-> << >>]
    ELSE IF \E i \in 1..Len(hist[chatID]) : LineTooLong(hist[chatID][i])
    THEN [err |-> "bufio.Scanner: token too long", messages |-> << >>]
    ELSE [err |-> "", messages |-> LastMessages(SelectSeq(hist[chatID], Decodes), limit)]

\* ------------------------------------------------------------------- Init

NoProc == "none"

Procs == {"p1", "p2"}

\* A caller's call record: the arguments, the locals, the result, and what
\* was known when the call began and when it took the lock.
IdleCall == [op |-> "none", username |-> "", password |-> "", displayName |-> "",
             err |-> "", user |-> NoUser, exists |-> FALSE,
             knownAtCall |-> FALSE, storeAtLock |-> EmptyStore,
             fileAtLock |-> FileOf(EmptyStore)]

\* Strings the callers of the identity store pass under SpecAuth.
AuthUsernames == {"", "alice"}

AuthPasswords == {"", "pw1"}

AuthDisplayNames == {"", "Alice"}

\* The store init() loads from an identity file that holds two users.
LoadedAlice ==
    StoreInsert(EmptyStore, "alice", NewUser(EmptyStore, "alice", "pw1", "Alice"))

LoadedStore ==
    StoreInsert(LoadedAlice, "bob", NewUser(LoadedAlice, "bob", "pw2", "Bob"))

InitStore ==
    /\ userStore = LoadedStore
    /\ userFile = FileOf(LoadedStore)

\* PumpAtUpgrade with writePump started as soon as the connection is
\* upgraded.
PumpAtUpgradeStarted == "run"

\* Where writePump stands while the connection is in AUTH_LOOP: go
\* client.writePump() comes after the loop and the hand-over to the hub.
PumpAtUpgrade == "off"

InitSys ==
    /\ cpc = [c \in Conns |-> "gate"]
    /\ cuser = [c \in Conns |-> NoUser]
    /\ gateReply = [c \in Conns |-> NoFrame]
    /\ connOpen = [c \in Conns |-> TRUE]
    /\ send = [c \in Conns |-> << >>]
    /\ sendClosed = [c \in Conns |-> FALSE]
    /\ wpc = [c \in Conns |-> PumpAtUpgrade]
    /\ delivered = [c \in Conns |-> << >>]
    /\ pending = [c \in Conns |-> NoFrame]
    /\ clients = {}
    /\ slowTask = [c \in Conns |-> "none"]
    /\ accepted = << >>
    /\ history = [ch \in {GlobalChatID} |-> << >>]
    /\ nframes = 0
    /\ panicked = "none"

InitAuthVars ==
    /\ apc = [p \in Procs |-> "idle"]
    /\ acall = [p \in Procs |-> IdleCall]
    /\ mutexW = NoProc
    /\ mutexR = {}
    /\ ncalls = [p \in Procs |-> 0]
    /\ regDone = [u \in AuthUsernames |-> << >>]
    /\ regFailed = {}

InitRequest == request = [c \in Conns |-> NoFrame]

\* A caller of the history store between two calls.
IdleStoreCall == [pc |-> "idle", op |-> "none", chat |-> EmptyChatID,
                  calls |-> 0, sawTorn |-> FALSE]

\* No call of the history store in progress, historyFileMutexes empty.
InitStoreVars ==
    /\ storeCall = [p \in Procs |-> IdleStoreCall]
    /\ storeMutexes = [global |-> NoProc, files |-> [ch \in {} |-> NoProc]]

NoConn == "none"

\* Hub.Run waits in its select; no read pump is inside a helper of the hub.
InitHubVars ==
    /\ hubWriting = NoConn
    /\ hubReaders = {}

\* conn.SetReadDeadline(time.Now().Add(60 * time.Second)) on upgrade
InitGateVars ==
    /\ gateFrame = [c \in Conns |-> NoFrame]
    /\ gateLeft = [c \in Conns |-> GateDeadline]
    /\ gateQuiet = [c \in Conns |-> 0]
    /\ gateFails = [c \in Conns |-> 0]
    /\ InitHubVars
    /\ wire = [c \in Conns |-> << >>]
    /\ InitStoreVars

Init == InitStore /\ InitSys /\ InitAuthVars /\ InitRequest /\ InitGateVars

\* ------------------------------------------------------- connection gate

InGate(c) == cpc[c] = "gate" /\ connOpen[c] /\ panicked = "none"

\* REGISTER_REQUEST in the gate: RegisterNewUser, then REGISTER_RESPONSE;
\* the loop goes on.
GateRegisterRequest(c) ==
    /\ InGate(c)
    /\ \E u \in Usernames, pw \in Passwords, dn \in GateDisplayNames,
          hashOk \in BOOLEAN, outcome \in SaveOutcomes :
        LET r == RegisterNewUser(userStore, userFile, u, pw, dn, hashOk, outcome)
        IN  /\ userStore' = r.store
            /\ userFile' = r.file
            /\ gateReply' = [gateReply EXCEPT ![c] =
                    IF r.err = "" THEN RegisterResponse(TRUE, r.user.id, "")
                    ELSE RegisterResponse(FALSE, "", r.err)]
    /\ UNCHANGED <<cpc, cuser, connOpen, send, sendClosed, wpc,
                   delivered, pending, clients, slowTask, accepted, history,
                   nframes, panicked, authVars, request, gateVars, hubVars, wire, storeVars>>

\* LoginLeavesGate with the break taken on a failed login too.
LoginLeavesGateAlways(r) == TRUE

\* Whether the gate leaves AUTH_LOOP after this AuthenticateUser result.
LoginLeavesGate(r) == r.err = ""

\* LOGIN_REQUEST in the gate: AuthenticateUser, then LOGIN_RESPONSE; on
\* success the Client is built and offered to hub.register.
GateLoginRequest(c) ==
    /\ InGate(c)
    /\ \E u \in Usernames, pw \in Passwords :
        LET r == AuthenticateUser(userStore, u, pw)
        IN  /\ gateReply' = [gateReply EXCEPT ![c] =
                    IF r.err = "" THEN LoginResponse(TRUE, r.user, "")
                    ELSE LoginResponse(FALSE, NoUser, r.err)]
            /\ IF LoginLeavesGate(r)
               THEN /\ cuser' = [cuser EXCEPT ![c] = r.user]
                    /\ cpc' = [cpc EXCEPT ![c] = "register"]
               ELSE UNCHANGED <<cuser, cpc>>
    /\ UNCHANGED <<userStore, userFile, connOpen, send, sendClosed, wpc, delivered, pending, clients, slowTask, accepted, history,
                   nframes, panicked, authVars, request, gateVars, hubVars, wire, storeVars>>

\* Any other frame in the gate (binary frame, bad JSON, bad payload, other
\* tag): sendErrorMessage only logs, nothing is written, the loop goes on.
GateUnexpected(c) ==
    /\ InGate(c)
    /\ UNCHANGED vars

\* A read error in the gate closes the connection.
GateReadError(c) ==
    /\ InGate(c)
    /\ cpc' = [cpc EXCEPT ![c] = "closed"]
    /\ connOpen' = [connOpen EXCEPT ![c] = FALSE]
    /\ UNCHANGED <<userStore, userFile, cuser, gateReply, send, sendClosed, wpc, delivered, pending, clients, slowTask, accepted,
                   history, nframes, panicked, authVars, request, gateVars, hubVars, wire, storeVars>>

\* -------------------------------------------------------------------- hub

\* case client := <-h.register
HubRegister(c) ==
    /\ cpc[c] = "register" /\ panicked = "none"
    /\ clients' = clients \cup {c}
    /\ cpc' = [cpc EXCEPT ![c] = "read"]
    /\ wpc' = [wpc EXCEPT ![c] = "run"]
    /\ UNCHANGED <<userStore, userFile, cuser, gateReply, connOpen, send, sendClosed,
                   delivered, pending, slowTask, accepted, history,
                   nframes, panicked, authVars, request, gateVars, hubVars, wire, storeVars>>

\* Enqueue with the frame put at the front of the queue.
EnqueueFront(q, frame) == <<frame>> \o q

\* A buffered channel send: the frame goes to the back of the queue.
Enqueue(q, frame) == Append(q, frame)

\* select { case client.send <- message: default: } finds room.
HasRoom(q) == Len(q) < SendCap

\* The sessions a broadcast cannot enqueue to.
Blocked(set) == {s \in set : ~HasRoom(send[s])}

\* Dispatch to every connection that has a queue, registered or not.
DispatchAll(set, frame) ==
    [s \in Conns |-> IF HasRoom(send[s]) THEN Enqueue(send[s], frame) ELSE send[s]]

\* The queues after a broadcast of frame to the sessions of set.
Dispatch(set, frame) ==
    [s \in Conns |->
        IF s \in set /\ HasRoom(send[s]) THEN Enqueue(send[s], frame) ELSE send[s]]

\* AfterBroadcast with the delete left out.
AfterBroadcastKeep(set) == set

\* Hub.clients after a broadcast: delete(h.clients, client) for each session
\* whose queue was full.
AfterBroadcast(set) == set \ Blocked(set)

\* EnqueueReady with a plain client.send <- message, which waits for room.
EnqueueWaits(q) == HasRoom(q)

\* Whether the hub's send to a queue can go on at once: the select has a
\* default case, so it always can.
EnqueueReady(q) == TRUE

\* case message := <-h.broadcast, taken from the read pump of c
HubBroadcast(c) ==
    /\ cpc[c] = "bcast" /\ panicked = "none"
    /\ \A s \in clients : EnqueueReady(send[s])
    /\ accepted' = Append(accepted, pending[c])
    /\ send' = Dispatch(clients, pending[c])
    /\ clients' = AfterBroadcast(clients)
    /\ slowTask' = [s \in Conns |->
                        IF s \in Blocked(clients) THEN "waiting" ELSE slowTask[s]]
    /\ cpc' = [cpc EXCEPT ![c] = "read"]
    /\ pending' = [pending EXCEPT ![c] = NoFrame]
    /\ UNCHANGED <<userStore, userFile, cuser, gateReply, connOpen, sendClosed,
                   wpc, delivered, history, nframes, panicked,
                   authVars, request, gateVars, hubVars, wire, storeVars>>

\* InClients with the membership test left out.
InClientsAlways(c) == TRUE

\* if _, ok := h.clients[client]; ok
InClients(c) == c \in clients

\* case client := <-h.unregister: what the hub does with the command.
Unregister(c) ==
    IF InClients(c)
    THEN /\ clients' = clients \ {c}
         /\ IF sendClosed[c]
            THEN panicked' = "close of closed channel" /\ UNCHANGED sendClosed
            ELSE sendClosed' = [sendClosed EXCEPT ![c] = TRUE] /\ UNCHANGED panicked
    ELSE UNCHANGED <<clients, sendClosed, panicked>>

\* The unregister command of readPump's deferred function; readPump then
\* closes the connection.
HubUnregisterRead(c) ==
    /\ cpc[c] = "unreg" /\ panicked = "none"
    /\ Unregister(c)
    /\ cpc' = [cpc EXCEPT ![c] = "done"]
    /\ connOpen' = [connOpen EXCEPT ![c] = FALSE]
    /\ UNCHANGED <<userStore, userFile, cuser, gateReply, send, wpc, delivered,
                   pending, slowTask, accepted, history, nframes, authVars, request, gateVars, hubVars, wire, storeVars>>

\* The unregister command of the goroutine a broadcast started for a
\* session whose queue was full.
HubUnregisterSlow(c) ==
    /\ slowTask[c] = "waiting" /\ panicked = "none"
    /\ Unregister(c)
    /\ slowTask' = [slowTask EXCEPT ![c] = "done"]
    /\ UNCHANGED <<userStore, userFile, cpc, cuser, gateReply, connOpen, send, wpc,
                   delivered, pending, accepted, history, nframes, authVars, request, gateVars, hubVars, wire, storeVars>>

\* -------------------------------------------------------------- read pump

Reading(c) ==
    /\ cpc[c] = "read" /\ connOpen[c] /\ panicked = "none"
    /\ nframes < MaxFrames

\* TEXT_MESSAGE: the frame is built, SaveMessage appends to the global
\* chat's file (a failure is only logged), and the frame is offered to
\* hub.broadcast.  saved is whether the file could be opened and written.
ReadTextSaved(c, saved) ==
    /\ Reading(c)
    /\ \E text \in Texts :
        /\ history' = SaveMessage(history, GlobalChatID, cuser[c], text,
                                  nframes + 1, Epoch, saved)
        /\ pending' = [pending EXCEPT ![c] =
                          BroadcastText(cuser[c], text, nframes + 1)]
    /\ cpc' = [cpc EXCEPT ![c] = "bcast"]
    /\ nframes' = nframes + 1
    /\ UNCHANGED <<userStore, userFile, cuser, gateReply, connOpen, send, sendClosed,
                   wpc, delivered, clients, slowTask, accepted,
                   panicked, authVars, request, gateVars, hubVars, wire, storeVars>>

\* TEXT_MESSAGE with the history directory writable, as Spec takes it.
ReadText(c) == ReadTextSaved(c, TRUE)

\* ReadMessage fails (peer closed, deadline passed, connection closed by
\* the write pump): the loop ends and the deferred function offers the
\* session to hub.unregister.
ReadError(c) ==
    /\ cpc[c] = "read" /\ panicked = "none"
    /\ cpc' = [cpc EXCEPT ![c] = "unreg"]
    /\ UNCHANGED <<userStore, userFile, cuser, gateReply, connOpen, send, sendClosed,
                   wpc, delivered, pending, clients, slowTask,
                   accepted, history, nframes, panicked, authVars, request, gateVars, hubVars, wire, storeVars>>

\* ------------------------------------------------------------- write pump

Writing(c) == wpc[c] = "run" /\ panicked = "none"

\* WritePumpExit without the deferred c.conn.Close().
WritePumpExitOpen(c) ==
    /\ wpc' = [wpc EXCEPT ![c] = "done"]
    /\ UNCHANGED connOpen

\* return from writePump: the deferred function closes the connection.
WritePumpExit(c) ==
    /\ wpc' = [wpc EXCEPT ![c] = "done"]
    /\ connOpen' = [connOpen EXCEPT ![c] = FALSE]

\* Dequeue taking the frame enqueued last.
DequeueLast(q) == q[Len(q)]

\* The frame writePump takes from a queue.
Dequeue(q) == Head(q)

\* The text frame writePump writes for a message: w.Write(message), then
\* one newline byte for each message len(c.send) counts in the queue, then
\* w.Close().
WireFrame(message, queued) == [message |-> message, newlines |-> queued]

\* case message, ok := <-c.send with a frame: one text frame is written,
\* or the write fails and the pump returns.  kept is whether the text
\* frame is kept in wire.
WritePumpFrameKept(c, kept) ==
    /\ Writing(c)
    /\ send[c] # << >>
    /\ send' = [send EXCEPT ![c] = Tail(@)]
    /\ \E written \in BOOLEAN :
        /\ written => connOpen[c]
        /\ IF written
           THEN /\ delivered' = [delivered EXCEPT ![c] = Append(@, Dequeue(send[c]))]
                /\ wire' = IF kept
                           THEN [wire EXCEPT ![c] =
                                    Append(@, WireFrame(Dequeue(send[c]), Len(send'[c])))]
                           ELSE wire
                /\ UNCHANGED <<wpc, connOpen>>
           ELSE /\ WritePumpExit(c)
                /\ UNCHANGED <<delivered, wire>>
    /\ UNCHANGED <<userStore, userFile, cpc, cuser, gateReply, sendClosed, pending, clients, slowTask, accepted, history, nframes,
                   panicked, authVars, request, gateVars, hubVars, storeVars>>

\* The write of a queued frame as Spec takes it, wire left empty.
WritePumpFrame(c) == WritePumpFrameKept(c, FALSE)

\* c.conn.WriteMessage(websocket.CloseMessage, []byte{}) as wire keeps it.
CloseFrame == [message |-> [type |-> "CLOSE"], newlines |-> 0]

\* case message, ok := <-c.send on a closed and drained queue: a close
\* frame is handed to WriteMessage, whose error is not looked at, and the
\* pump returns.  kept is whether the close frame is kept in wire.
WritePumpClosedKept(c, kept) ==
    /\ Writing(c)
    /\ send[c] = << >> /\ sendClosed[c]
    /\ WritePumpExit(c)
    /\ wire' = IF kept THEN [wire EXCEPT ![c] = Append(@, CloseFrame)] ELSE wire
    /\ UNCHANGED <<userStore, userFile, cpc, cuser, gateReply, send, sendClosed,
                   delivered, pending, clients, slowTask, accepted,
                   history, nframes, panicked, authVars, request, gateVars, hubVars, storeVars>>

\* The closed queue as Spec takes it, wire left empty.
WritePumpClosed(c) == WritePumpClosedKept(c, FALSE)

\* case <-ticker.C: a ping is written, or the write fails and the pump
\* returns.
WritePumpPing(c) ==
    /\ Writing(c)
    /\ \E written \in BOOLEAN :
        /\ written => connOpen[c]
        /\ IF written THEN UNCHANGED <<wpc, connOpen>> ELSE WritePumpExit(c)
    /\ UNCHANGED <<userStore, userFile, cpc, cuser, gateReply, send, sendClosed,
                   delivered, pending, clients, slowTask, accepted,
                   history, nframes, panicked, authVars, request, gateVars, hubVars, wire, storeVars>>

\* ------------------------------------------------------------------- Spec

Next ==
    \E c \in Conns :
        \/ GateRegisterRequest(c)
        \/ GateLoginRequest(c)
        \/ GateUnexpected(c)
        \/ GateReadError(c)
        \/ HubRegister(c)
        \/ HubBroadcast(c)
        \/ HubUnregisterRead(c)
        \/ HubUnregisterSlow(c)
        \/ ReadText(c)
        \/ ReadError(c)
        \/ WritePumpFrame(c)
        \/ WritePumpClosed(c)
        \/ WritePumpPing(c)

Spec == Init /\ [][Next]_vars

\* ------------------------------------- identity store, statement by statement

\* Under SpecAuth init() loads an identity file that holds one user, whom
\* no caller names.
LoadedBob ==
    StoreInsert(EmptyStore, "bob", NewUser(EmptyStore, "bob", "pw2", "Bob"))

InitAuth ==
    /\ userStore = LoadedBob
    /\ userFile = FileOf(LoadedBob)
    /\ InitSys
    /\ InitAuthVars
    /\ InitRequest
    /\ InitGateVars

\* CanLock with the write lock not excluding anyone.
CanLockAlways == TRUE

\* userStoreMutex.Lock() can be taken.
CanLock == mutexW = NoProc /\ mutexR = {}

\* userStoreMutex.RLock() can be taken.
CanRLock == mutexW = NoProc

\* A caller starts RegisterNewUser(username, password, displayName).
RegCall(p) ==
    /\ apc[p] = "idle" /\ ncalls[p] < MaxCalls
    /\ \E u \in AuthUsernames, pw \in AuthPasswords, dn \in AuthDisplayNames :
        acall' = [acall EXCEPT ![p] =
                    [IdleCall EXCEPT !.op = "register", !.username = u,
                                     !.password = pw, !.displayName = dn,
                                     !.knownAtCall = regDone[u] # << >>]]
    /\ apc' = [apc EXCEPT ![p] = "regLock"]
    /\ ncalls' = [ncalls EXCEPT ![p] = @ + 1]
    /\ UNCHANGED <<userStore, userFile, sysVars, request, gateVars, hubVars, mutexW, mutexR, regDone, regFailed, wire, storeVars>>

\* userStoreMutex.Lock()
RegLock(p) ==
    /\ apc[p] = "regLock"
    /\ CanLock
    /\ mutexW' = p
    /\ acall' = [acall EXCEPT ![p].storeAtLock = userStore,
                              ![p].fileAtLock = userFile]
    /\ apc' = [apc EXCEPT ![p] = "regCheck"]
    /\ UNCHANGED <<userStore, userFile, sysVars, request, gateVars, hubVars, mutexR, ncalls, regDone, regFailed, wire, storeVars>>

\* if _, exists := userStore[username]; exists, then
\* bcrypt.GenerateFromPassword and the new User.
RegCheck(p) ==
    /\ apc[p] = "regCheck"
    /\ \E hashOk \in BOOLEAN :
        IF acall[p].username \in DOMAIN userStore
        THEN /\ acall' = [acall EXCEPT ![p].err = "username is already taken"]
             /\ apc' = [apc EXCEPT ![p] = "regReturn"]
        ELSE IF ~hashOk
        THEN /\ acall' = [acall EXCEPT ![p].err = "failed to hash password"]
             /\ apc' = [apc EXCEPT ![p] = "regReturn"]
        ELSE /\ acall' = [acall EXCEPT ![p].user =
                            NewUser(userStore, acall[p].username,
                                    acall[p].password, acall[p].displayName)]
             /\ apc' = [apc EXCEPT ![p] = "regInsert"]
    /\ UNCHANGED <<userStore, userFile, sysVars, request, gateVars, hubVars, mutexW, mutexR, ncalls, regDone, regFailed, wire, storeVars>>

\* userStore[username] = newUser
RegInsert(p) ==
    /\ apc[p] = "regInsert"
    /\ userStore' = StoreInsert(userStore, acall[p].username, acall[p].user)
    /\ apc' = [apc EXCEPT ![p] = "regSave"]
    /\ UNCHANGED <<userFile, sysVars, request, gateVars, hubVars, acall, mutexW, mutexR, ncalls, regDone, regFailed, wire, storeVars>>

\* if err := saveUsersToFile(); err != nil
RegSave(p) ==
    /\ apc[p] = "regSave"
    /\ \E outcome \in SaveOutcomes :
        /\ userFile' = saveUsersToFile(userStore, userFile, outcome)
        /\ apc' = [apc EXCEPT ![p] =
                      IF outcome = "ok" THEN "regReturn" ELSE "regRollback"]
    /\ UNCHANGED <<userStore, sysVars, request, gateVars, hubVars, acall, mutexW, mutexR, ncalls, regDone, regFailed, wire, storeVars>>

\* delete(userStore, username) and the error return
RegRollback(p) ==
    /\ apc[p] = "regRollback"
    /\ userStore' = StoreDelete(userStore, acall[p].username)
    /\ acall' = [acall EXCEPT
                    ![p].err = "failed to save new user to persistent store",
                    ![p].user = NoUser]
    /\ apc' = [apc EXCEPT ![p] = "regReturn"]
    /\ UNCHANGED <<userFile, sysVars, request, gateVars, hubVars, mutexW, mutexR, ncalls, regDone, regFailed, wire, storeVars>>

\* return, with the deferred userStoreMutex.Unlock()
RegReturn(p) ==
    /\ apc[p] = "regReturn"
    /\ mutexW' = IF mutexW = p THEN NoProc ELSE mutexW
    /\ regDone' = IF acall[p].err = ""
                  THEN [regDone EXCEPT ![acall[p].username] =
                           Append(@, [user |-> acall[p].user,
                                      password |-> acall[p].password,
                                      displayName |-> acall[p].displayName])]
                  ELSE regDone
    /\ regFailed' = IF acall[p].err = "failed to save new user to persistent store"
                    THEN regFailed \cup {acall[p].username} ELSE regFailed
    /\ acall' = [acall EXCEPT ![p] = IdleCall]
    /\ apc' = [apc EXCEPT ![p] = "idle"]
    /\ UNCHANGED <<userStore, userFile, sysVars, request, gateVars, hubVars, mutexR, ncalls, wire, storeVars>>

\* A caller starts AuthenticateUser(username, password).
AuthCall(p) ==
    /\ apc[p] = "idle" /\ ncalls[p] < MaxCalls
    /\ \E u \in AuthUsernames, pw \in AuthPasswords :
        acall' = [acall EXCEPT ![p] =
                    [IdleCall EXCEPT !.op = "authenticate", !.username = u,
                                     !.password = pw,
                                     !.knownAtCall = regDone[u] # << >>]]
    /\ apc' = [apc EXCEPT ![p] = "authRLock"]
    /\ ncalls' = [ncalls EXCEPT ![p] = @ + 1]
    /\ UNCHANGED <<userStore, userFile, sysVars, request, gateVars, hubVars, mutexW, mutexR, regDone, regFailed, wire, storeVars>>

\* userStoreMutex.RLock()
AuthRLock(p) ==
    /\ apc[p] = "authRLock"
    /\ CanRLock
    /\ mutexR' = mutexR \cup {p}
    /\ apc' = [apc EXCEPT ![p] = "authLookup"]
    /\ UNCHANGED <<userStore, userFile, sysVars, request, gateVars, hubVars, acall, mutexW, ncalls, regDone, regFailed, wire, storeVars>>

\* user, exists := userStore[username]; userStoreMutex.RUnlock()
AuthLookup(p) ==
    /\ apc[p] = "authLookup"
    /\ acall' = [acall EXCEPT
                    ![p].exists = acall[p].username \in DOMAIN userStore,
                    ![p].user = IF acall[p].username \in DOMAIN userStore
                                THEN userStore[acall[p].username] ELSE NoUser]
    /\ mutexR' = mutexR \ {p}
    /\ apc' = [apc EXCEPT ![p] = "authCompare"]
    /\ UNCHANGED <<userStore, userFile, sysVars, request, gateVars, hubVars, mutexW, ncalls, regDone, regFailed, wire, storeVars>>

\* if !exists; bcrypt.CompareHashAndPassword
AuthCompare(p) ==
    /\ apc[p] = "authCompare"
    /\ acall' = [acall EXCEPT ![p] =
                    IF ~acall[p].exists
                    THEN [@ EXCEPT !.err = "user not found", !.user = NoUser]
                    ELSE IF ~CompareHashAndPassword(acall[p].user.hash,
                                                    acall[p].password)
                    THEN [@ EXCEPT !.err = "invalid password", !.user = NoUser]
                    ELSE @]
    /\ apc' = [apc EXCEPT ![p] = "authReturn"]
    /\ UNCHANGED <<userStore, userFile, sysVars, request, gateVars, hubVars, mutexW, mutexR, ncalls, regDone, regFailed, wire, storeVars>>

\* return from AuthenticateUser
AuthReturn(p) ==
    /\ apc[p] = "authReturn"
    /\ acall' = [acall EXCEPT ![p] = IdleCall]
    /\ apc' = [apc EXCEPT ![p] = "idle"]
    /\ UNCHANGED <<userStore, userFile, sysVars, request, gateVars, hubVars, mutexW, mutexR, ncalls, regDone, regFailed, wire, storeVars>>

NextAuth ==
    \E p \in Procs :
        \/ RegCall(p)
        \/ RegLock(p)
        \/ RegCheck(p)
        \/ RegInsert(p)
        \/ RegSave(p)
        \/ RegRollback(p)
        \/ RegReturn(p)
        \/ AuthCall(p)
        \/ AuthRLock(p)
        \/ AuthLookup(p)
        \/ AuthCompare(p)
        \/ AuthReturn(p)

SpecAuth == InitAuth /\ [][NextAuth]_vars

\* ------------------------------------------------------------ SpecCorrupt

\* An identity file whose bytes json.Unmarshal rejects; users records what
\* the bytes are, so that the file is told apart from a file cut short.
CorruptFile == [valid |-> FALSE, users |-> LoadedBob]

\* loadUsersFromFile: the store init() starts with.  A file that does not
\* decode leaves the store empty and is not touched.
loadUsersFromFile(file) == IF file.valid THEN file.users ELSE EmptyStore

\* A caller starts GetUserByID(userID): userStoreMutex.RLock()
GetCall(p) ==
    /\ apc[p] = "idle" /\ ncalls[p] < MaxCalls
    /\ CanRLock
    /\ mutexR' = mutexR \cup {p}
    /\ acall' = [acall EXCEPT ![p] = [IdleCall EXCEPT !.op = "getUserByID"]]
    /\ apc' = [apc EXCEPT ![p] = "getScan"]
    /\ ncalls' = [ncalls EXCEPT ![p] = @ + 1]
    /\ UNCHANGED <<userStore, userFile, sysVars, request, gateVars, hubVars, mutexW, regDone, regFailed, wire, storeVars>>

\* for _, u := range userStore { if u.ID == userID ... }, return with the
\* deferred userStoreMutex.RUnlock()
GetScan(p) ==
    /\ apc[p] = "getScan"
    /\ mutexR' = mutexR \ {p}
    /\ acall' = [acall EXCEPT ![p] = IdleCall]
    /\ apc' = [apc EXCEPT ![p] = "idle"]
    /\ UNCHANGED <<userStore, userFile, sysVars, request, gateVars, hubVars, mutexW, ncalls, regDone, regFailed, wire, storeVars>>

\* The server starts on a malformed identity file.
InitCorrupt ==
    /\ userFile = CorruptFile
    /\ userStore = loadUsersFromFile(CorruptFile)
    /\ InitSys
    /\ InitAuthVars
    /\ InitRequest
    /\ InitGateVars

NextCorrupt ==
    \/ NextAuth
    \/ \E p \in Procs : GetCall(p) \/ GetScan(p)

SpecCorrupt == InitCorrupt /\ [][NextCorrupt]_vars

\* ------------------------------------- directed frames of the read pump

\* Hub.FindClientByUserID: the sessions of the set that bear this user id
\* (the lookup returns one of them; none means not found).
FindClientByUserID(userID) == {s \in clients : cuser[s].id = userID}

\* sendResponse: select { case c.send <- messageBytes: default: }
SendResponse(queues, s, frame) ==
    [queues EXCEPT ![s] = IF HasRoom(@) THEN Enqueue(@, frame) ELSE @]

\* sendError: an ERROR_NOTIFY through sendResponse.
SendError(queues, s, errorCode) == SendResponse(queues, s, ErrorNotify(errorCode))

\* WithStored leaving the notify as readPump built it.
WithoutStored(notify, storedMsg) == notify

\* The notify with the message identifier and timestamp of the record
\* SaveMessage returned (storedMsg != nil).
WithStored(notify, storedMsg) ==
    [notify EXCEPT !.message_id = storedMsg.message_id,
                   !.timestamp = storedMsg.timestamp]

\* ReplyNotFound sending nothing.
ReplyNothing(queues, c) == queues

\* if !found { c.sendError("USER_NOT_FOUND", ...); continue }
ReplyNotFound(queues, c) == SendError(queues, c, "USER_NOT_FOUND")

\* DeliversAfterSave with a continue after the HISTORY_SAVE_FAILED reply.
DeliversOnlySaved(saved) == saved

\* Whether readPump goes on to the notifies after SaveMessage: the branch
\* for errSave != nil replies HISTORY_SAVE_FAILED and has no continue.
DeliversAfterSave(saved) == TRUE

\* User ids SEND_PRIVATE_MESSAGE_REQUEST frames name as target.
TargetUserIDs == {"A", "B", "C", "D"}

\* readPump has a directed request in hand.
Receiving(c) ==
    /\ cpc[c] = "read" /\ connOpen[c] /\ panicked = "none"
    /\ nframes < MaxDirect

\* SEND_PRIVATE_MESSAGE_REQUEST.  saved is whether SaveMessage could open
\* and write the chat's file; SaveMessage reads the clock at savedAt,
\* readPump after it at builtAt.
ReadPrivateSaved(c, saved) ==
    /\ Receiving(c)
    /\ \E targetUserID \in TargetUserIDs, text \in Texts,
          savedAt \in {Epoch}, builtAt \in Times :
      /\ request' = [request EXCEPT ![c] =
              PrivateMessageRequest(targetUserID, text, nframes + 1)]
      /\ IF FindClientByUserID(targetUserID) = {}
        THEN /\ send' = ReplyNotFound(send, c)
             /\ UNCHANGED history
        ELSE \E targetClient \in FindClientByUserID(targetUserID) :
            LET gen == GeneratePrivateChatID(cuser[c].id, cuser[targetClient].id)
                storedMsg == StoredMessage(gen.id, cuser[c], text, nframes + 1,
                                           savedAt)
                built == NewPrivateMessageNotify(gen.id, cuser[c],
                                                 cuser[targetClient].id, text,
                                                 builtAt)
                notifyPayload == IF saved THEN WithStored(built, storedMsg)
                                 ELSE built
                afterError == IF saved THEN send
                              ELSE SendError(send, c, "HISTORY_SAVE_FAILED")
            IN  IF gen.err # ""
                THEN /\ send' = SendError(send, c, "INTERNAL_ERROR")
                     /\ UNCHANGED history
                ELSE /\ history' = SaveMessage(history, gen.id, cuser[c], text,
                                               nframes + 1, savedAt, saved)
                     /\ send' = IF DeliversAfterSave(saved)
                                THEN SendResponse(
                                         SendResponse(afterError, targetClient,
                                                      notifyPayload),
                                         c, notifyPayload)
                                ELSE afterError
    /\ nframes' = nframes + 1
    /\ UNCHANGED <<userStore, userFile, cpc, cuser, gateReply, connOpen, sendClosed,
                   wpc, delivered, pending, clients, slowTask, accepted,
                   panicked, authVars, gateVars, hubVars, wire, storeVars>>

\* SEND_PRIVATE_MESSAGE_REQUEST with the history directory writable.
ReadPrivate(c) == ReadPrivateSaved(c, TRUE)

\* strings.HasPrefix(chatID, "private:")
HasPrivatePrefix(chatID) == Len(chatID) >= 2 /\ chatID[1] = "private"

\* CanAccess granting every chat to every requester.
CanAccessAlways(chatID, userID) == TRUE

\* canAccess of the GET_CHAT_HISTORY_REQUEST handler.
CanAccess(chatID, userID) ==
    \/ chatID = GlobalChatID
    \/ /\ HasPrivatePrefix(chatID)
       /\ Len(chatID) = 3
       /\ (chatID[2] = userID \/ chatID[3] = userID)

DefaultHistoryLimit == 50

MaxHistoryLimit == 100

\* ClampLimit with the limit taken as it comes.
ClampNothing(limit) == limit

\* if limit <= 0 || limit > 100 { limit = 50 }
ClampLimit(limit) ==
    IF limit <= 0 \/ limit > MaxHistoryLimit THEN DefaultHistoryLimit ELSE limit

\* GET_CHAT_HISTORY_REQUEST for chat chatID with limit limit.
ReadHistoryRequest(c, chatID, limit) ==
    /\ Receiving(c)
    /\ IF ~CanAccess(chatID, cuser[c].id)
       THEN send' = SendError(send, c, "ACCESS_DENIED")
       ELSE LET loaded == LoadChatHistory(history, chatID, ClampLimit(limit))
            IN  IF loaded.err # ""
                THEN send' = SendError(send, c, "HISTORY_LOAD_FAILED")
                ELSE send' = SendResponse(send, c,
                                ChatHistoryResponse(chatID, loaded.messages))
    /\ request' = [request EXCEPT ![c] =
            ChatHistoryRequest(chatID, limit, nframes + 1)]
    /\ nframes' = nframes + 1
    /\ UNCHANGED <<userStore, userFile, cpc, cuser, gateReply, connOpen, sendClosed,
                   wpc, delivered, pending, clients, slowTask, accepted,
                   history, panicked, authVars, gateVars, hubVars, wire, storeVars>>

\* Chat identifiers and limits GET_CHAT_HISTORY_REQUEST frames carry under
\* SpecDirect.
HistoryChatIDs ==
    {GlobalChatID, <<"private", "A", "B">>, <<"private", "B", "C">>,
     <<"private", "A">>, <<"private", "A", "B", "C">>, <<"other">>, EmptyChatID}

HistoryLimits == {1}

ReadHistory(c) ==
    \E chatID \in HistoryChatIDs, limit \in HistoryLimits :
        ReadHistoryRequest(c, chatID, limit)

\* ---------------------------------------------------------------- user list

UserInfo(user) ==
    [user_id |-> user.id, display_name |-> user.display, is_online |-> TRUE]

UserListRequest(n) == [type |-> "GET_USER_LIST_REQUEST", n |-> n]

\* USER_LIST_RESPONSE; the entries are kept as a set, their order in the
\* frame being that of an iteration over a Go map.
UserListResponse(users) == [type |-> "USER_LIST_RESPONSE", users |-> users]

\* Hub.GetAuthenticatedUsersInfo: an entry for every session of the hub set
\* but those of the user to leave out.
GetAuthenticatedUsersInfo(excludeUserID) ==
    {UserInfo(cuser[s]) : s \in {x \in clients : cuser[x].id # excludeUserID}}

\* ExcludedUserID with nobody left out of the list.
ExcludeNobody(c) == ""

\* The argument readPump passes to GetAuthenticatedUsersInfo: c.UserID.
ExcludedUserID(c) == cuser[c].id

\* GET_USER_LIST_REQUEST: the list is built and sent to the requester
\* through sendResponse.
ReadUserList(c) ==
    /\ Receiving(c)
    /\ request' = [request EXCEPT ![c] = UserListRequest(nframes + 1)]
    /\ send' = SendResponse(send, c,
                   UserListResponse(GetAuthenticatedUsersInfo(ExcludedUserID(c))))
    /\ nframes' = nframes + 1
    /\ UNCHANGED <<userStore, userFile, cpc, cuser, gateReply, connOpen, sendClosed,
                   wpc, delivered, pending, clients, slowTask, accepted, history,
                   panicked, authVars, gateVars, hubVars, wire, storeVars>>

\* ------------------------------------------- frames readPump does not accept

\* A text frame readPump cannot act on: kind is "badjson" for an envelope
\* json.Unmarshal rejects, "badpayload" for a payload that does not decode
\* for the tag, "unknown" for a tag the switch has no case for.
RejectedRequest(kind, tag, n) ==
    [type |-> "REJECTED", kind |-> kind, tag |-> tag, n |-> n]

\* The tags whose case of the switch decodes a payload.
PayloadTags ==
    {"SEND_PRIVATE_MESSAGE_REQUEST", "TEXT_MESSAGE", "GET_CHAT_HISTORY_REQUEST"}

RejectedFrames ==
    {RejectedRequest("badjson", "", 0), RejectedRequest("unknown", "PING", 0)}
      \cup {RejectedRequest("badpayload", tag, 0) : tag \in PayloadTags}

\* What readPump puts in the queue for a frame it rejects: nothing when the
\* envelope does not decode (log and continue), INVALID_PAYLOAD when the
\* payload does not, UNKNOWN_MESSAGE_TYPE in the default case.
RejectReply(queues, c, frame) ==
    IF frame.kind = "badjson" THEN queues
    ELSE IF frame.kind = "badpayload" THEN SendError(queues, c, "INVALID_PAYLOAD")
    ELSE SendError(queues, c, "UNKNOWN_MESSAGE_TYPE")

\* A frame readPump rejects; its loop goes on.
ReadRejected(c) ==
    /\ Receiving(c)
    /\ \E frame \in RejectedFrames :
        /\ request' = [request EXCEPT ![c] = [frame EXCEPT !.n = nframes + 1]]
        /\ send' = RejectReply(send, c, frame)
    /\ nframes' = nframes + 1
    /\ UNCHANGED <<userStore, userFile, cpc, cuser, gateReply, connOpen, sendClosed,
                   wpc, delivered, pending, clients, slowTask, accepted, history,
                   panicked, authVars, gateVars, hubVars, wire, storeVars>>

\* ------------------------------------------------------------ SpecDirect

\* Three users, one of them registered with an oversize display name, each
\* logged in on a connection of its own and registered with the hub.  The
\* sessions send directed requests and leave; their write pumps are not
\* scheduled, so that what a handler put in a queue stays there.
DirectConns == {"c1", "c2", "c3"}

DirectUsers ==
    [c \in DirectConns |->
        CASE c = "c1" -> [id |-> "A", username |-> "alice",
                          hash |-> GenerateFromPassword("pw1"), display |-> "Alice"]
          [] c = "c2" -> [id |-> "B", username |-> "bob",
                          hash |-> GenerateFromPassword("pw2"), display |-> "Bob"]
          [] OTHER -> [id |-> "C", username |-> "zed",
                       hash |-> GenerateFromPassword("pw1"),
                       display |-> "Zed, followed by 70000 more letters"]]

DirectStore == [u \in {DirectUsers[c].username : c \in DirectConns} |->
                   CHOOSE user \in {DirectUsers[c] : c \in DirectConns} :
                       user.username = u]

InitDirect ==
    /\ userStore = DirectStore
    /\ userFile = FileOf(DirectStore)
    /\ cpc = [c \in DirectConns |-> "read"]
    /\ cuser = DirectUsers
    /\ gateReply = [c \in DirectConns |-> LoginResponse(TRUE, DirectUsers[c], "")]
    /\ connOpen = [c \in DirectConns |-> TRUE]
    /\ send = [c \in DirectConns |-> << >>]
    /\ sendClosed = [c \in DirectConns |-> FALSE]
    /\ wpc = [c \in DirectConns |-> "run"]
    /\ delivered = [c \in DirectConns |-> << >>]
    /\ pending = [c \in DirectConns |-> NoFrame]
    /\ clients = DirectConns
    /\ slowTask = [c \in DirectConns |-> "none"]
    /\ accepted = << >>
    /\ history = [ch \in {} |-> << >>]
    /\ nframes = 0
    /\ panicked = "none"
    /\ InitAuthVars
    /\ request = [c \in DirectConns |-> NoFrame]
    /\ gateFrame = [c \in DirectConns |-> NoFrame]
    /\ gateLeft = [c \in DirectConns |-> 0]
    /\ gateQuiet = [c \in DirectConns |-> 0]
    /\ gateFails = [c \in DirectConns |-> 0]
    /\ InitHubVars
    /\ wire = [c \in DirectConns |-> << >>]
    /\ InitStoreVars

NextDirect ==
    \E c \in DirectConns :
        \/ ReadPrivate(c)
        \/ ReadHistory(c)
        \/ ReadError(c)
        \/ HubUnregisterRead(c)

SpecDirect == InitDirect /\ [][NextDirect]_vars

\* ----------------------------------------------------------- SpecSession

\* The three sessions of SpecDirect sending private messages, requests for
\* the user list and frames readPump rejects, and leaving.
NextSession ==
    \E c \in DirectConns :
        \/ ReadPrivate(c)
        \/ ReadUserList(c)
        \/ ReadRejected(c)
        \/ ReadError(c)
        \/ HubUnregisterRead(c)

SpecSession == InitDirect /\ [][NextSession]_vars

\* ---------------------------------------------------------- SpecSaveFail

\* Both users of the loaded store are logged in and registered with the
\* hub, and the history directory may refuse any write: every SaveMessage
\* either appends or fails.
InitSaveFail ==
    /\ InitStore
    /\ cpc = [c \in Conns |-> "read"]
    /\ cuser = [c \in Conns |->
            IF c = "c1" THEN LoadedStore["alice"] ELSE LoadedStore["bob"]]
    /\ gateReply = [c \in Conns |-> LoginResponse(TRUE, cuser[c], "")]
    /\ connOpen = [c \in Conns |-> TRUE]
    /\ send = [c \in Conns |-> << >>]
    /\ sendClosed = [c \in Conns |-> FALSE]
    /\ wpc = [c \in Conns |-> "run"]
    /\ delivered = [c \in Conns |-> << >>]
    /\ pending = [c \in Conns |-> NoFrame]
    /\ clients = Conns
    /\ slowTask = [c \in Conns |-> "none"]
    /\ accepted = << >>
    /\ history = [ch \in {} |-> << >>]
    /\ nframes = 0
    /\ panicked = "none"
    /\ InitAuthVars
    /\ InitRequest
    /\ InitGateVars

NextSaveFail ==
    \E c \in Conns :
        \/ \E saved \in BOOLEAN : ReadTextSaved(c, saved)
        \/ \E saved \in BOOLEAN : ReadPrivateSaved(c, saved)
        \/ HubBroadcast(c)

SpecSaveFail == InitSaveFail /\ [][NextSaveFail]_vars

\* ------------------------------------------------------------- SpecOrder

\* Two logged-in sessions whose queues are filled by the hub's broadcasts
\* and by sendResponse of either read pump, and emptied by their write
\* pumps.
NextOrder ==
    \E c \in Conns :
        \/ ReadText(c)
        \/ HubBroadcast(c)
        \/ ReadPrivate(c)
        \/ ReadUserList(c)
        \/ WritePumpFrame(c)

SpecOrder == InitSaveFail /\ [][NextOrder]_vars

\* -------------------------------------------------------------- SpecWire

\* Two logged-in sessions broadcasting text, with the text frames their
\* write pumps write kept in wire.
NextWire ==
    \E c \in Conns :
        \/ ReadText(c)
        \/ HubBroadcast(c)
        \/ WritePumpFrameKept(c, TRUE)

SpecWire == InitSaveFail /\ [][NextWire]_vars

\* -------------------------------------------------------------- SpecExit

\* Two logged-in sessions asking for the user list and leaving, their write
\* pumps writing, failing to write, pinging and finding the queue closed;
\* the frames they write are kept in wire.
NextExit ==
    \E c \in Conns :
        \/ ReadUserList(c)
        \/ ReadError(c)
        \/ HubUnregisterRead(c)
        \/ WritePumpFrameKept(c, TRUE)
        \/ WritePumpClosedKept(c, TRUE)
        \/ WritePumpPing(c)

SpecExit == InitSaveFail /\ [][NextExit]_vars

\* ------------------------------------------------------------- SpecStore

\* SaveMessage and LoadChatHistory run by concurrent callers, one lock
\* operation or file operation at a time.  file.Write is taken in two
\* steps, so that a caller not kept out by the chat's mutex would find half
\* a record in the file or put its own bytes between the two halves.

\* Chat identifiers the callers pass under SpecStore.
StoreChats == {GlobalChatID, <<"private", "A", "B">>, EmptyChatID}

\* uuid.NewString() for the call a caller is in.
StoreMessageID(p) == (IF p = "p1" THEN 10 ELSE 20) + storeCall[p].calls

StoreRest == <<userStore, userFile, cpc, cuser, gateReply, connOpen, send,
               sendClosed, wpc, delivered, pending, clients, slowTask, accepted,
               nframes, panicked, authVars, request, gateVars, hubVars, wire>>

\* A caller starts SaveMessage or LoadChatHistory; both return at once on
\* an empty chat identifier.
StoreBegin(p) ==
    /\ storeCall[p].pc = "idle" /\ storeCall[p].calls < MaxCalls
    /\ \E op \in {"save", "load"}, chat \in StoreChats :
        storeCall' = [storeCall EXCEPT ![p] =
            IF chat = EmptyChatID
            THEN [@ EXCEPT !.op = op, !.chat = chat, !.calls = @ + 1,
                           !.sawTorn = FALSE]
            ELSE [@ EXCEPT !.pc = "getmutex", !.op = op, !.chat = chat,
                           !.sawTorn = FALSE]]
    /\ UNCHANGED <<StoreRest, history, storeMutexes>>

\* getFileMutex: globalHistoryMutex.Lock()
StoreGlobalLock(p) ==
    /\ storeCall[p].pc = "getmutex"
    /\ storeMutexes.global = NoProc
    /\ storeMutexes' = [storeMutexes EXCEPT !.global = p]
    /\ storeCall' = [storeCall EXCEPT ![p].pc = "lookup"]
    /\ UNCHANGED <<StoreRest, history>>

\* getFileMutex: the mutex of the chat is looked up and made if it is not
\* there; the deferred globalHistoryMutex.Unlock() runs on return.
StoreLookup(p) ==
    /\ storeCall[p].pc = "lookup"
    /\ LET chat == storeCall[p].chat
           files == storeMutexes.files
       IN  storeMutexes' =
               [global |-> NoProc,
                files |-> [ch \in DOMAIN files \cup {chat} |->
                              IF ch \in DOMAIN files THEN files[ch] ELSE NoProc]]
    /\ storeCall' = [storeCall EXCEPT ![p].pc = "lockfile"]
    /\ UNCHANGED <<StoreRest, history>>

\* CanLockFile with a mutex that keeps nobody out.
CanLockFileAlways(chat) == TRUE

\* fileMutex.Lock() can be taken.
CanLockFile(chat) == storeMutexes.files[chat] = NoProc

\* fileMutex.Lock()
StoreFileLock(p) ==
    /\ storeCall[p].pc = "lockfile"
    /\ CanLockFile(storeCall[p].chat)
    /\ storeMutexes' = [storeMutexes EXCEPT !.files[storeCall[p].chat] = p]
    /\ storeCall' = [storeCall EXCEPT ![p].pc =
            IF storeCall[p].op = "save" THEN "write" ELSE "read"]
    /\ UNCHANGED <<StoreRest, history>>

\* SaveMessage: os.OpenFile(O_APPEND|O_CREATE) and the first bytes of
\* file.Write.
StoreWriteBegin(p) ==
    /\ storeCall[p].pc = "write"
    /\ LET chat == storeCall[p].chat
       IN  history' = [ch \in DOMAIN history \cup {chat} |->
               IF ch = chat
               THEN Append(IF ch \in DOMAIN history THEN history[ch] ELSE << >>,
                           TornLine(StoreMessageID(p)))
               ELSE history[ch]]
    /\ storeCall' = [storeCall EXCEPT ![p].pc = "write2"]
    /\ UNCHANGED <<StoreRest, storeMutexes>>

\* SaveMessage: the rest of the bytes of file.Write.  They end the record
\* when the file still ends with its first bytes, and are cut off from
\* them when another caller has written in between.
StoreWriteEnd(p) ==
    /\ storeCall[p].pc = "write2"
    /\ LET chat == storeCall[p].chat
           lines == history[chat]
           id == StoreMessageID(p)
       IN  history' = [history EXCEPT ![chat] =
               IF lines[Len(lines)] = TornLine(id)
               THEN [lines EXCEPT ![Len(lines)] =
                        StoredMessage(chat, LoadedStore["alice"], "hi", id, Epoch)]
               ELSE Append(lines, TornLine(id))]
    /\ storeCall' = [storeCall EXCEPT ![p].pc = "unlock"]
    /\ UNCHANGED <<StoreRest, storeMutexes>>

\* LoadChatHistory: the file is opened and scanned; sawTorn is whether a
\* line of it did not decode.
StoreRead(p) ==
    /\ storeCall[p].pc = "read"
    /\ LET chat == storeCall[p].chat
       IN  storeCall' = [storeCall EXCEPT
               ![p].pc = "unlock",
               ![p].sawTorn = /\ chat \in DOMAIN history
                              /\ \E i \in 1..Len(history[chat]) :
                                     ~Decodes(history[chat][i])]
    /\ UNCHANGED <<StoreRest, history, storeMutexes>>

\* The deferred fileMutex.Unlock() on return.
StoreFileUnlock(p) ==
    /\ storeCall[p].pc = "unlock"
    /\ storeMutexes' = [storeMutexes EXCEPT !.files[storeCall[p].chat] = NoProc]
    /\ storeCall' = [storeCall EXCEPT ![p].pc = "idle", ![p].calls = @ + 1]
    /\ UNCHANGED <<StoreRest, history>>

NextStore ==
    \E p \in Procs :
        \/ StoreBegin(p)
        \/ StoreGlobalLock(p)
        \/ StoreLookup(p)
        \/ StoreFileLock(p)
        \/ StoreWriteBegin(p)
        \/ StoreWriteEnd(p)
        \/ StoreRead(p)
        \/ StoreFileUnlock(p)

SpecStore == InitSaveFail /\ [][NextStore]_vars

\* -------------------------------------------------------------- SpecLoad

\* The global chat's file after n TEXT_MESSAGE frames of alice, sent one
\* after the other.
StoredBroadcasts(n) ==
    [i \in 1..n |-> StoredMessage(GlobalChatID, LoadedStore["alice"], "hi", i, Epoch)]

\* Limits GET_CHAT_HISTORY_REQUEST frames carry under SpecLoad.
LoadLimits == (0 - 1)..(MaxHistoryLimit + 1)

\* alice is logged in on c1, her session registered with the hub, after
\* any number of broadcasts up to MaxStored.
InitLoad ==
    /\ InitStore
    /\ cpc = [c \in Conns |-> IF c = "c1" THEN "read" ELSE "gate"]
    /\ cuser = [c \in Conns |-> IF c = "c1" THEN LoadedStore["alice"] ELSE NoUser]
    /\ gateReply = [c \in Conns |->
            IF c = "c1" THEN LoginResponse(TRUE, LoadedStore["alice"], "")
            ELSE NoFrame]
    /\ connOpen = [c \in Conns |-> TRUE]
    /\ send = [c \in Conns |-> << >>]
    /\ sendClosed = [c \in Conns |-> FALSE]
    /\ wpc = [c \in Conns |-> IF c = "c1" THEN "run" ELSE PumpAtUpgrade]
    /\ delivered = [c \in Conns |-> << >>]
    /\ pending = [c \in Conns |-> NoFrame]
    /\ clients = {"c1"}
    /\ slowTask = [c \in Conns |-> "none"]
    /\ accepted = << >>
    /\ \E n \in 0..MaxStored : history = [ch \in {GlobalChatID} |-> StoredBroadcasts(n)]
    /\ nframes = 0
    /\ panicked = "none"
    /\ InitAuthVars
    /\ InitRequest
    /\ InitGateVars

\* The first request of the session is a GET_CHAT_HISTORY_REQUEST for the
\* global chat.
LoadRequest(c) ==
    /\ nframes = 0
    /\ \E limit \in LoadLimits : ReadHistoryRequest(c, GlobalChatID, limit)

NextLoad == \E c \in Conns : LoadRequest(c)

SpecLoad == InitLoad /\ [][NextLoad]_vars

\* ------------------------------------------ the gate with its read deadline

\* Number of frames the gate has read so far, over all connections.
GateCount ==
    LET ns == {gateFrame[c].n : c \in {d \in Conns : gateFrame[d] # NoFrame}}
    IN  IF ns = {} THEN 0 ELSE CHOOSE n \in ns : \A m \in ns : m <= n

\* A frame conn.ReadMessage() returned in AUTH_LOOP.  kind is "binary" for
\* messageType != websocket.TextMessage, "badjson" for an envelope
\* json.Unmarshal rejects, "badpayload" for a payload it rejects, "ok"
\* otherwise; n numbers the frame.
GateFrame(kind, type, username, password, n) ==
    [kind |-> kind, type |-> type, username |-> username,
     password |-> password, n |-> n]

\* conn.SetReadDeadline(time.Now().Add(60 * time.Second))
SetReadDeadline(left, c) == [left EXCEPT ![c] = GateDeadline]

\* sendErrorMessage: the last frame written to the connection after the
\* call.  The call to sendWebSocketResponse is commented out; the function
\* writes a log line and nothing to the connection.
sendErrorMessage(reply, c, errorCode) == reply

\* RegisterLeavesGate with a successful registration taken as a login.
RegisterLeavesGateOnSuccess(r) == r.err = ""

\* Whether the gate leaves AUTH_LOOP after this RegisterNewUser result: the
\* REGISTER_REQUEST case has no break.
RegisterLeavesGate(r) == FALSE

\* conn.ReadMessage() returns a frame: the deadline has not passed.
GateRead(c) ==
    /\ InGate(c)
    /\ gateLeft[c] > 0
    /\ GateCount < MaxGate

\* case protocol.MsgTypeRegisterRequest with a payload that decodes:
\* RegisterNewUser, REGISTER_RESPONSE, then the deadline is set anew.
GateRegister(c) ==
    /\ GateRead(c)
    /\ \E u \in Usernames, pw \in Passwords, dn \in GateDisplayNames,
          hashOk \in BOOLEAN, outcome \in SaveOutcomes :
        LET r == RegisterNewUser(userStore, userFile, u, pw, dn, hashOk, outcome)
        IN  /\ userStore' = r.store
            /\ userFile' = r.file
            /\ gateReply' = [gateReply EXCEPT ![c] =
                    IF r.err = "" THEN RegisterResponse(TRUE, r.user.id, "")
                    ELSE RegisterResponse(FALSE, "", r.err)]
            /\ gateFrame' = [gateFrame EXCEPT ![c] =
                    GateFrame("ok", "REGISTER_REQUEST", u, pw, GateCount + 1)]
            /\ IF RegisterLeavesGate(r)
               THEN /\ cuser' = [cuser EXCEPT ![c] = r.user]
                    /\ cpc' = [cpc EXCEPT ![c] = "register"]
               ELSE UNCHANGED <<cuser, cpc>>
    /\ gateLeft' = SetReadDeadline(gateLeft, c)
    /\ gateQuiet' = [gateQuiet EXCEPT ![c] = 0]
    /\ gateFails' = [gateFails EXCEPT ![c] =
            IF gateReply'[c].success THEN @ ELSE @ + 1]
    /\ UNCHANGED <<connOpen, send, sendClosed, wpc, delivered, pending,
                   clients, slowTask, accepted, history, nframes, panicked,
                   authVars, request, hubVars, wire, storeVars>>

\* case protocol.MsgTypeLoginRequest with a payload that decodes:
\* AuthenticateUser and LOGIN_RESPONSE; a failure continues AUTH_LOOP, a
\* success breaks out of it, and neither reaches the statement that sets
\* the deadline anew.
GateLogin(c) ==
    /\ GateRead(c)
    /\ \E u \in Usernames, pw \in Passwords :
        LET r == AuthenticateUser(userStore, u, pw)
        IN  /\ gateReply' = [gateReply EXCEPT ![c] =
                    IF r.err = "" THEN LoginResponse(TRUE, r.user, "")
                    ELSE LoginResponse(FALSE, NoUser, r.err)]
            /\ gateFrame' = [gateFrame EXCEPT ![c] =
                    GateFrame("ok", "LOGIN_REQUEST", u, pw, GateCount + 1)]
            /\ IF LoginLeavesGate(r)
               THEN /\ cuser' = [cuser EXCEPT ![c] = r.user]
                    /\ cpc' = [cpc EXCEPT ![c] = "register"]
               ELSE UNCHANGED <<cuser, cpc>>
    /\ gateQuiet' = [gateQuiet EXCEPT ![c] = 0]
    /\ gateFails' = [gateFails EXCEPT ![c] =
            IF gateReply'[c].success THEN @ ELSE @ + 1]
    /\ UNCHANGED <<userStore, userFile, connOpen, send, sendClosed, wpc,
                   delivered, pending, clients, slowTask, accepted, history,
                   nframes, panicked, authVars, request, gateLeft, hubVars, wire, storeVars>>

\* The frames AUTH_LOOP answers with sendErrorMessage, and the code it
\* passes for each.
GateRejects ==
    {GateFrame("binary", "", "", "", 0),
     GateFrame("badjson", "", "", "", 0),
     GateFrame("badpayload", "REGISTER_REQUEST", "", "", 0),
     GateFrame("badpayload", "LOGIN_REQUEST", "", "", 0),
     GateFrame("ok", "SEND_PRIVATE_MESSAGE_REQUEST", "", "", 0)}

GateErrorCode(frame) ==
    CASE frame.kind = "binary" -> "INVALID_MESSAGE_TYPE"
      [] frame.kind = "badjson" -> "INVALID_JSON"
      [] frame.kind = "badpayload" -> "INVALID_PAYLOAD"
      [] OTHER -> "UNEXPECTED_MESSAGE_TYPE"

\* A frame that is not a REGISTER_REQUEST or LOGIN_REQUEST that decodes:
\* sendErrorMessage, then continue for a non-text frame, an envelope or a
\* payload that does not decode; only the default case of the switch goes
\* on to the statement that sets the deadline anew.
GateRejected(c) ==
    /\ GateRead(c)
    /\ \E frame \in GateRejects :
        /\ gateFrame' = [gateFrame EXCEPT ![c] = [frame EXCEPT !.n = GateCount + 1]]
        /\ gateReply' = sendErrorMessage(gateReply, c, GateErrorCode(frame))
        /\ gateLeft' = IF frame.kind = "ok" THEN SetReadDeadline(gateLeft, c)
                       ELSE gateLeft
    /\ gateQuiet' = [gateQuiet EXCEPT ![c] = 0]
    /\ UNCHANGED <<userStore, userFile, cpc, cuser, connOpen, send, sendClosed,
                   wpc, delivered, pending, clients, slowTask, accepted,
                   history, nframes, panicked, authVars, request, gateFails, hubVars, wire, storeVars>>

\* One unit of time passes for every connection in the gate; none passes
\* beyond a deadline before ReadMessage has returned its error.
GateTick ==
    /\ \E c \in Conns : InGate(c)
    /\ \A c \in Conns : InGate(c) => gateLeft[c] > 0
    /\ gateLeft' = [c \in Conns |->
            IF InGate(c) THEN gateLeft[c] - 1 ELSE gateLeft[c]]
    /\ gateQuiet' = [c \in Conns |->
            IF InGate(c) /\ gateQuiet[c] < GateDeadline THEN gateQuiet[c] + 1
            ELSE gateQuiet[c]]
    /\ UNCHANGED <<userStore, userFile, sysVars, authVars, request, gateFrame,
                   gateFails, hubVars, wire, storeVars>>

\* conn.ReadMessage() returns the deadline error: conn.Close(), return.
GateTimeout(c) ==
    /\ InGate(c)
    /\ gateLeft[c] = 0
    /\ cpc' = [cpc EXCEPT ![c] = "timedout"]
    /\ connOpen' = [connOpen EXCEPT ![c] = FALSE]
    /\ UNCHANGED <<userStore, userFile, cuser, gateReply, send, sendClosed, wpc,
                   delivered, pending, clients, slowTask, accepted, history,
                   nframes, panicked, authVars, request, gateVars, hubVars, wire, storeVars>>

\* Under SpecGate the identity file holds one user and every connection has
\* just been upgraded.
InitGate ==
    /\ userStore = LoadedBob
    /\ userFile = FileOf(LoadedBob)
    /\ InitSys
    /\ InitAuthVars
    /\ InitRequest
    /\ InitGateVars

NextGate ==
    \/ \E c \in Conns :
        \/ GateRegister(c)
        \/ GateLogin(c)
        \/ GateRejected(c)
        \/ GateTimeout(c)
        \/ GateReadError(c)
        \/ HubRegister(c)
    \/ GateTick

SpecGate == InitGate /\ [][NextGate]_vars

\* ------------------------------------------------------------ SpecFrames

\* One connection in the gate and one that has logged in as the user of the
\* store: every kind of frame the server answers with, REGISTER_RESPONSE and
\* LOGIN_RESPONSE of the gate and the replies and notifications of readPump.
InitFrames ==
    /\ userStore = LoadedBob
    /\ userFile = FileOf(LoadedBob)
    /\ cpc = [c \in Conns |-> IF c = "c1" THEN "read" ELSE "gate"]
    /\ cuser = [c \in Conns |-> IF c = "c1" THEN LoadedBob["bob"] ELSE NoUser]
    /\ gateReply = [c \in Conns |->
            IF c = "c1" THEN LoginResponse(TRUE, LoadedBob["bob"], "") ELSE NoFrame]
    /\ connOpen = [c \in Conns |-> TRUE]
    /\ send = [c \in Conns |-> << >>]
    /\ sendClosed = [c \in Conns |-> FALSE]
    /\ wpc = [c \in Conns |-> IF c = "c1" THEN "run" ELSE PumpAtUpgrade]
    /\ delivered = [c \in Conns |-> << >>]
    /\ pending = [c \in Conns |-> NoFrame]
    /\ clients = {"c1"}
    /\ slowTask = [c \in Conns |-> "none"]
    /\ accepted = << >>
    /\ history = [ch \in {GlobalChatID} |-> << >>]
    /\ nframes = 0
    /\ panicked = "none"
    /\ InitAuthVars
    /\ InitRequest
    /\ InitGateVars

NextFrames ==
    \E c \in Conns :
        \/ GateRegister(c)
        \/ GateLogin(c)
        \/ HubRegister(c)
        \/ ReadPrivate(c)
        \/ ReadHistory(c)
        \/ ReadUserList(c)

SpecFrames == InitFrames /\ [][NextFrames]_vars

\* -------------------------------------------------------------- SpecLive

\* Logins, broadcasts and departures; no peer reads what is queued for it,
\* so a queue that is full stays full.
NextLive ==
    \E c \in Conns :
        \/ GateLoginRequest(c)
        \/ HubRegister(c)
        \/ HubBroadcast(c)
        \/ HubUnregisterRead(c)
        \/ HubUnregisterSlow(c)
        \/ ReadText(c)
        \/ ReadError(c)

\* Hub.Run is a goroutine of its own that loops over one select, and the
\* scheduler runs every runnable goroutine: a command offered on one of
\* its channels for good is received.  Nothing makes a peer send a frame or
\* read one, so the pumps have no such condition.
FairHub ==
    \A c \in Conns :
        /\ WF_vars(HubRegister(c))
        /\ WF_vars(HubBroadcast(c))
        /\ WF_vars(HubUnregisterRead(c))
        /\ WF_vars(HubUnregisterSlow(c))

SpecLive == Init /\ [][NextLive]_vars /\ FairHub

\* ------------------------------------------------------------- SpecEvict

\* The broadcasts bob sent before the first state of SpecEvict, numbered
\* up to 0.
EarlierBroadcasts ==
    [i \in 1..SendCap |-> BroadcastText(LoadedStore["bob"], "hi", i - SendCap)]

EarlierRecords ==
    [i \in 1..SendCap |->
        StoredMessage(GlobalChatID, LoadedStore["bob"], "hi", i - SendCap, Epoch)]

\* alice on c1 and bob on c2 are logged in and registered; bob has sent
\* SendCap broadcasts, which his write pump has written and which still
\* stand in alice's queue, her peer reading nothing.
InitEvict ==
    /\ InitStore
    /\ cpc = [c \in Conns |-> "read"]
    /\ cuser = [c \in Conns |->
            IF c = "c1" THEN LoadedStore["alice"] ELSE LoadedStore["bob"]]
    /\ gateReply = [c \in Conns |-> LoginResponse(TRUE, cuser[c], "")]
    /\ connOpen = [c \in Conns |-> TRUE]
    /\ send = [c \in Conns |-> IF c = "c1" THEN EarlierBroadcasts ELSE << >>]
    /\ sendClosed = [c \in Conns |-> FALSE]
    /\ wpc = [c \in Conns |-> "run"]
    /\ delivered = [c \in Conns |-> IF c = "c1" THEN << >> ELSE EarlierBroadcasts]
    /\ pending = [c \in Conns |-> NoFrame]
    /\ clients = Conns
    /\ slowTask = [c \in Conns |-> "none"]
    /\ accepted = EarlierBroadcasts
    /\ history = [ch \in {GlobalChatID} |-> EarlierRecords]
    /\ nframes = 0
    /\ panicked = "none"
    /\ InitAuthVars
    /\ InitRequest
    /\ InitGateVars

\* Broadcasts, requests for the user list and the write pumps, with the
\* unregister a broadcast starts for a session whose queue it found full.
NextEvict ==
    \E c \in Conns :
        \/ ReadText(c)
        \/ HubBroadcast(c)
        \/ HubUnregisterSlow(c)
        \/ ReadUserList(c)
        \/ WritePumpFrame(c)

SpecEvict == InitEvict /\ [][NextEvict]_vars /\ FairHub

\* ---------------------------------------------------------- SpecTeardown

\* What readPump holds between FindClientByUserID and the two sendResponse
\* calls of a private message: the session the lookup returned and the
\* notify built for it.
HeldNotify(targetClient, notifyPayload) ==
    [target |-> targetClient, notify |-> notifyPayload]

\* SEND_PRIVATE_MESSAGE_REQUEST up to the notify: the lookup, the chat
\* identifier, SaveMessage and the payload.  The hub and the target's pumps
\* run on before the notify is sent.
PrivateLookup(c) ==
    /\ Receiving(c)
    /\ \E targetUserID \in TargetUserIDs, text \in Texts :
      /\ request' = [request EXCEPT ![c] =
              PrivateMessageRequest(targetUserID, text, nframes + 1)]
      /\ IF FindClientByUserID(targetUserID) = {}
        THEN /\ send' = ReplyNotFound(send, c)
             /\ UNCHANGED <<history, cpc, pending>>
        ELSE \E targetClient \in FindClientByUserID(targetUserID) :
            LET gen == GeneratePrivateChatID(cuser[c].id, cuser[targetClient].id)
                storedMsg == StoredMessage(gen.id, cuser[c], text, nframes + 1,
                                           Epoch)
                built == NewPrivateMessageNotify(gen.id, cuser[c],
                                                 cuser[targetClient].id, text,
                                                 Epoch)
            IN  IF gen.err # ""
                THEN /\ send' = SendError(send, c, "INTERNAL_ERROR")
                     /\ UNCHANGED <<history, cpc, pending>>
                ELSE /\ history' = SaveMessage(history, gen.id, cuser[c], text,
                                               nframes + 1, Epoch, TRUE)
                     /\ pending' = [pending EXCEPT ![c] =
                            HeldNotify(targetClient, WithStored(built, storedMsg))]
                     /\ cpc' = [cpc EXCEPT ![c] = "notify"]
                     /\ UNCHANGED send
    /\ nframes' = nframes + 1
    /\ UNCHANGED <<userStore, userFile, cuser, gateReply, connOpen, sendClosed,
                   wpc, delivered, clients, slowTask, accepted,
                   panicked, authVars, gateVars, hubVars, wire, storeVars>>

\* targetClient.sendResponse(...) and c.sendResponse(...).  A send on a
\* closed channel panics, in a select with a default case too: readPump
\* unwinds through its deferred function, which offers the session to
\* hub.unregister, and the server recovers the panic of the handler.
PrivateEnqueue(c) ==
    /\ cpc[c] = "notify" /\ panicked = "none"
    /\ LET targetClient == pending[c].target
           notifyPayload == pending[c].notify
       IN  IF sendClosed[targetClient] \/ sendClosed[c]
           THEN /\ cpc' = [cpc EXCEPT ![c] = "unreg"]
                /\ send' = IF sendClosed[targetClient] THEN send
                           ELSE SendResponse(send, targetClient, notifyPayload)
           ELSE /\ cpc' = [cpc EXCEPT ![c] = "read"]
                /\ send' = SendResponse(SendResponse(send, targetClient,
                                                     notifyPayload),
                                        c, notifyPayload)
    /\ pending' = [pending EXCEPT ![c] = NoFrame]
    /\ UNCHANGED <<userStore, userFile, cuser, gateReply, connOpen, sendClosed,
                   wpc, delivered, clients, slowTask, accepted, history, nframes,
                   panicked, authVars, request, gateVars, hubVars, wire, storeVars>>

\* Two logged-in sessions sending each other private messages while either
\* of them leaves.
NextTeardown ==
    \E c \in Conns :
        \/ PrivateLookup(c)
        \/ PrivateEnqueue(c)
        \/ ReadError(c)
        \/ HubUnregisterRead(c)

SpecTeardown == InitSaveFail /\ [][NextTeardown]_vars

\* -------------------------------------------------------------- SpecTail

\* What a line of a history file may be: a record, a record whose sender
\* has a display name that makes the line longer than the scanner's buffer,
\* or bytes that are not JSON.
LineKinds == {"record", "long", "torn"}

TailLine(kind, i) ==
    CASE kind = "record" ->
             StoredMessage(GlobalChatID, LoadedStore["alice"], "hi", i, Epoch)
      [] kind = "long" ->
             StoredMessage(GlobalChatID, DirectUsers["c3"], "hi", i, Epoch)
      [] OTHER -> TornLine(i)

\* The files of up to MaxLines lines.
TailFiles ==
    UNION {{[i \in 1..n |-> TailLine(kinds[i], i)] : kinds \in [1..n -> LineKinds]} :
           n \in 0..MaxLines}

\* alice is logged in on c1; the global chat's file is any of TailFiles, or
\* is not there, and no private chat has a file.
InitTail ==
    /\ InitStore
    /\ cpc = [c \in Conns |-> IF c = "c1" THEN "read" ELSE "gate"]
    /\ cuser = [c \in Conns |-> IF c = "c1" THEN LoadedStore["alice"] ELSE NoUser]
    /\ gateReply = [c \in Conns |->
            IF c = "c1" THEN LoginResponse(TRUE, LoadedStore["alice"], "")
            ELSE NoFrame]
    /\ connOpen = [c \in Conns |-> TRUE]
    /\ send = [c \in Conns |-> << >>]
    /\ sendClosed = [c \in Conns |-> FALSE]
    /\ wpc = [c \in Conns |-> IF c = "c1" THEN "run" ELSE PumpAtUpgrade]
    /\ delivered = [c \in Conns |-> << >>]
    /\ pending = [c \in Conns |-> NoFrame]
    /\ clients = {"c1"}
    /\ slowTask = [c \in Conns |-> "none"]
    /\ accepted = << >>
    /\ \/ history = [ch \in {} |-> << >>]
       \/ \E file \in TailFiles : history = [ch \in {GlobalChatID} |-> file]
    /\ nframes = 0
    /\ panicked = "none"
    /\ InitAuthVars
    /\ InitRequest
    /\ InitGateVars

\* Limits GET_CHAT_HISTORY_REQUEST frames carry under SpecTail.
TailLimits == {1, MaxLines}

\* GET_CHAT_HISTORY_REQUEST for the global chat or for a private chat of
\* the requester.
TailRequest(c) ==
    \E chatID \in {GlobalChatID, <<"private", "A", "B">>}, limit \in TailLimits :
        ReadHistoryRequest(c, chatID, limit)

AppendRequest(chatID, n) == [type |-> "APPEND", chat_id |-> chatID, n |-> n]

\* SaveMessage called with the empty chat identifier or with that of the
\* global chat.
TailAppend(c) ==
    /\ Receiving(c)
    /\ \E chatID \in {EmptyChatID, GlobalChatID} :
        /\ history' = SaveMessage(history, chatID, cuser[c], "hi", nframes + 1,
                                  Epoch, TRUE)
        /\ request' = [request EXCEPT ![c] = AppendRequest(chatID, nframes + 1)]
    /\ nframes' = nframes + 1
    /\ UNCHANGED <<userStore, userFile, cpc, cuser, gateReply, connOpen, send,
                   sendClosed, wpc, delivered, pending, clients, slowTask, accepted,
                   panicked, authVars, gateVars, hubVars, wire, storeVars>>

NextTail == TailRequest("c1") \/ TailAppend("c1")

SpecTail == InitTail /\ [][NextTail]_vars

\* --------------------------------------------------------------- SpecHub

\* Hub.Run and the read pumps on Hub.clients.  A command of the hub loop
\* that writes the map takes three steps here: the loop receives it
\* (HubTake), the map is written (HubWrite) and the case ends (HubDone).  A
\* read pump inside GetAuthenticatedUsersInfo or FindClientByUserID holds
\* the shared lock of the set from ReaderRLock to ReaderRUnlock.

\* Whether Hub.Run holds the lock of the set while it writes the map: Hub
\* has no lock among its fields and Run takes none.
RunLocksClients == FALSE

\* case client := <-h.register, case client := <-h.unregister: received.
HubTake(c) ==
    /\ hubWriting = NoConn /\ panicked = "none"
    /\ cpc[c] \in {"register", "unreg"}
    /\ RunLocksClients => hubReaders = {}
    /\ hubWriting' = c
    /\ UNCHANGED <<userStore, userFile, sysVars, authVars, request, gateVars,
                   hubReaders, wire, storeVars>>

\* h.clients[client] = true, delete(h.clients, client)
HubWrite(c) ==
    /\ hubWriting = c
    /\ HubRegister(c) \/ HubUnregisterRead(c)

\* The case of the select ends.
HubDone(c) ==
    /\ hubWriting = c
    /\ cpc[c] \notin {"register", "unreg"}
    /\ hubWriting' = NoConn
    /\ UNCHANGED <<userStore, userFile, sysVars, authVars, request, gateVars,
                   hubReaders, wire, storeVars>>

\* A helper of the hub called by readPump takes the shared lock.
ReaderRLock(c) ==
    /\ Receiving(c)
    /\ c \notin hubReaders
    /\ RunLocksClients => hubWriting = NoConn
    /\ hubReaders' = hubReaders \cup {c}
    /\ UNCHANGED <<userStore, userFile, sysVars, authVars, request, gateVars,
                   hubWriting, wire, storeVars>>

\* The helper reads the set and readPump goes on with what it returned.
ReaderRead(c) ==
    /\ c \in hubReaders
    /\ ReadUserList(c) \/ ReadPrivate(c)

\* The helper releases the lock.
ReaderRUnlock(c) ==
    /\ c \in hubReaders
    /\ hubReaders' = hubReaders \ {c}
    /\ UNCHANGED <<userStore, userFile, sysVars, authVars, request, gateVars,
                   hubWriting, wire, storeVars>>

\* ReadMessage fails between two requests.
ReaderLeaves(c) ==
    /\ c \notin hubReaders
    /\ ReadError(c)

NextHub ==
    \E c \in Conns :
        \/ GateLogin(c)
        \/ HubTake(c)
        \/ HubWrite(c)
        \/ HubDone(c)
        \/ ReaderRLock(c)
        \/ ReaderRead(c)
        \/ ReaderRUnlock(c)
        \/ ReaderLeaves(c)

SpecHub == InitFrames /\ [][NextHub]_vars

\* ----------------------------------------------------- properties of Spec

\* The frames a session was sent, oldest first: those its write pump wrote,
\* then those still queued.
Stream(c) == delivered[c] \o send[c]

IsBroadcast(frame) == frame.type = "BROADCAST_TEXT_MESSAGE"

\* The place of a frame in the order the hub accepted broadcasts; 0 when
\* the hub never accepted it.
AcceptedAt(frame) ==
    IF \E i \in 1..Len(accepted) : accepted[i] = frame
    THEN CHOOSE i \in 1..Len(accepted) : accepted[i] = frame
    ELSE 0

\* C1: broadcast FIFO.  In every session's stream (frames written to its
\* socket, then frames in its queue) the broadcast frames stand in the
\* order in which the hub accepted them from its broadcast channel, so any
\* two sessions that got the same two frames got them in the same order.
C1_BroadcastFifo ==
    \A c \in Conns :
        \A i, j \in 1..Len(Stream(c)) :
            (i < j /\ IsBroadcast(Stream(c)[i]) /\ IsBroadcast(Stream(c)[j]))
                => /\ AcceptedAt(Stream(c)[i]) > 0
                   /\ AcceptedAt(Stream(c)[i]) < AcceptedAt(Stream(c)[j])

\* Both sessions have been written two broadcasts, and the hub accepted
\* them in the order opposite to the one their read pumps built them in.
C1_Witness ==
    \A c \in Conns :
        /\ Len(delivered[c]) = 2
        /\ delivered[c] = accepted
        /\ accepted[1].n > accepted[2].n

LoggedIn(c) == gateReply[c].type = "LOGIN_RESPONSE" /\ gateReply[c].success

\* C2: gate exclusivity.  A connection that was not sent a successful
\* LOGIN_RESPONSE is not in the hub's set, has no Client offered to or
\* registered with the hub, no running pump, and no frame queued for it or
\* written to it by a write pump.
C2_GateExclusive ==
    \A c \in Conns :
        ~LoggedIn(c)
            => /\ c \notin clients
               /\ cpc[c] \in {"gate", "closed"}
               /\ wpc[c] = "off"
               /\ Stream(c) = << >>

\* One connection is still in the gate after a refused login while the
\* other one is registered and has been written a broadcast.
C2_Witness ==
    \E c, d \in Conns :
        /\ cpc[c] = "gate"
        /\ gateReply[c].type = "LOGIN_RESPONSE" /\ ~gateReply[c].success
        /\ d \in clients
        /\ delivered[d] # << >>

\* C3: slow-consumer isolation.  In the step in which the hub dispatches a
\* broadcast, every session of the set whose queue is full leaves the set
\* in that step with its queue untouched, and every session of the set
\* whose queue has room stays in the set with the frame at the back of its
\* queue; the step ends with the hub back at its select, the unregister of
\* the full sessions being left to their own goroutines.
C3_SlowConsumerIsolation ==
    [][\A c \in Conns :
          (cpc[c] = "bcast" /\ cpc'[c] = "read")
              => \A s \in clients :
                    IF Len(send[s]) >= SendCap
                    THEN /\ s \notin clients'
                         /\ send'[s] = send[s]
                         /\ slowTask'[s] = "waiting"
                    ELSE /\ s \in clients'
                         /\ send'[s] = Append(send[s], pending[c])
                         /\ slowTask'[s] = slowTask[s]]_vars

\* A broadcast has just evicted one session with a full queue and has
\* put its frame into the queue of the other.
C3_Witness ==
    \E s, t \in Conns :
        /\ s # t
        /\ slowTask[s] = "waiting" /\ s \notin clients /\ Len(send[s]) = SendCap
        /\ t \in clients
        /\ accepted # << >>
        /\ send[t] # << >>
        /\ send[t][Len(send[t])] = accepted[Len(accepted)]
        /\ accepted[Len(accepted)] \notin {send[s][i] : i \in 1..Len(send[s])}

\* C4: handling the unregister command of a session that a broadcast
\* found full removes the session from the set and closes its queue.
C4_SlowUnregisterCloses ==
    [][\A c \in Conns :
          (slowTask[c] = "waiting" /\ slowTask'[c] = "done")
              => (c \notin clients' /\ sendClosed'[c])]_vars

\* C5: session teardown.  Once the read pump of a session has ended and
\* the hub has handled its unregister command, and no other unregister
\* command for the session is waiting, the session is out of the set and
\* its queue is closed.
C5_TeardownCloses ==
    \A c \in Conns :
        (cpc[c] = "done" /\ slowTask[c] # "waiting")
            => (c \notin clients /\ sendClosed[c])

\* C6: unregister is idempotent.  No queue is closed twice (the process
\* never panics on closing a closed channel), and a session whose queue is
\* closed is not in the set, so no later unregister command closes it.
C6_UnregisterIdempotent ==
    /\ panicked # "close of closed channel"
    /\ \A c \in Conns : sendClosed[c] => c \notin clients

\* The hub has handled two unregister commands for one session, the one
\* of its read pump and the one of its slow-consumer goroutine, and also
\* one for a session it then closed.
C6_Witness ==
    \E c, d \in Conns :
        /\ cpc[c] = "done" /\ slowTask[c] = "done"
        /\ cpc[d] = "done" /\ sendClosed[d]

\* ------------------------------------------------- properties of SpecAuth

Registered(u) == regDone[u] # << >>

C8_CredentialRoundTrip ==
    \A p \in Procs :
        apc[p] = "authReturn"
            => LET u == acall[p].username
               IN  /\ acall[p].knownAtCall
                        => IF acall[p].password = regDone[u][1].password
                           THEN /\ acall[p].err = ""
                                /\ acall[p].user = regDone[u][1].user
                           ELSE /\ acall[p].err = "invalid password"
                                /\ acall[p].user = NoUser
                   /\ ~Registered(u)
                        => /\ acall[p].err = "user not found"
                           /\ acall[p].user = NoUser

\* One caller is returned the registered user for the right password
\* while the other is returned "invalid password" for a wrong one.
C8_Witness ==
    \E p, q \in Procs :
        /\ apc[p] = "authReturn" /\ acall[p].knownAtCall /\ acall[p].err = ""
        /\ acall[p].username = "alice" /\ acall[p].password = "pw1"
        /\ acall[p].user.username = "alice"
        /\ acall[q].username = "alice"
        /\ apc[q] = "authReturn" /\ acall[q].knownAtCall
        /\ acall[q].err = "invalid password"

\* C9: Register rejects empty input.  No user is created from a call
\* whose username, password or display name is the empty string.
C9_RegisterRejectsEmpty ==
    /\ \A u \in AuthUsernames :
        \A i \in 1..Len(regDone[u]) :
            u # "" /\ regDone[u][i].password # "" /\ regDone[u][i].displayName # ""
    /\ \A u \in DOMAIN userStore :
        /\ userStore[u].username # ""
        /\ userStore[u].display # ""
        /\ userStore[u].hash # GenerateFromPassword("")

\* C10: Register rollback.  A Register call that fails to persist returns
\* an error with the store as it was when the call took the lock: its
\* username absent, every user registered before still there.
C10_RegisterRollback ==
    \A p \in Procs :
        (apc[p] = "regReturn"
            /\ acall[p].err = "failed to save new user to persistent store")
            => /\ userStore = acall[p].storeAtLock
               /\ acall[p].username \notin DOMAIN userStore
               /\ acall[p].user = NoUser
               /\ \A u \in AuthUsernames : Registered(u) => u \in DOMAIN userStore
               /\ "bob" \in DOMAIN userStore /\ userStore["bob"] = LoadedBob["bob"]

\* A Register call is returning success for a username for which an
\* earlier call returned the persist error (regFailed records that return)
\* having cut the file short, with the user the store was loaded with
\* still in it.
C10_Witness ==
    \E p \in Procs :
        /\ apc[p] = "regReturn" /\ acall[p].err = ""
        /\ acall[p].username = "alice" /\ acall[p].password = "pw1"
        /\ acall[p].displayName = "Alice"
        /\ acall[p].username \in regFailed
        /\ ~acall[p].fileAtLock.valid
        /\ "bob" \in DOMAIN userStore

\* C11: atomic identity-file rewrite.  At every point of a registration the
\* identity file is a whole document: the one the call found when it took
\* the lock, or that one with the new user added; it is never cut short.
C11_AtomicFileRewrite ==
    /\ userFile.valid
    /\ \A p \in Procs :
        mutexW = p
            => userFile \in
                  {acall[p].fileAtLock,
                   FileOf(StoreInsert(acall[p].storeAtLock, acall[p].username,
                                      acall[p].user))}

\* ------------------------------------------------ properties of SpecDirect

\* C12: history append-and-load.  For every chat that k successful
\* SaveMessage calls have written, LoadChatHistory with a limit of k or
\* more returns without error exactly the k records of the file, which
\* stand in the order of the calls that wrote them (message identifiers
\* are numbered by inbound frame) and bear distinct message identifiers.
C12_AppendAndLoad ==
    \A chatID \in DOMAIN history :
        \A limit \in Len(history[chatID])..(Len(history[chatID]) + 1) :
            LET loaded == LoadChatHistory(history, chatID, limit)
            IN  /\ loaded.err = ""
                /\ loaded.messages = history[chatID]
                /\ \A i, j \in 1..Len(loaded.messages) :
                      i < j => loaded.messages[i].message_id
                                   < loaded.messages[j].message_id

\* ------------------------------------------------- properties of SpecLoad

\* C13: history bound.  The reply to a GET_CHAT_HISTORY_REQUEST on the
\* global chat with limit L holds the last min(L', n) of the n stored
\* records, oldest first, where L' is L when L is in 1..100 and 50
\* otherwise; after 120 broadcasts a request with limit 0 is answered with
\* the 71st through the 120th.
C13_HistoryBound ==
    \A c \in Conns :
        request[c] # NoFrame
            => LET stored == history[request[c].chat_id]
                   n == Len(stored)
                   served == IF request[c].limit >= 1 /\ request[c].limit <= 100
                             THEN request[c].limit ELSE 50
                   m == IF served < n THEN served ELSE n
               IN  /\ send[c] = <<ChatHistoryResponse(request[c].chat_id,
                                      SubSeq(stored, n - m + 1, n))>>
                   /\ (n = 120 /\ request[c].limit = 0)
                        => /\ Len(send[c][1].messages) = 50
                           /\ send[c][1].messages[1].message_id = 71
                           /\ send[c][1].messages[50].message_id = 120

\* After 120 broadcasts a request with limit 0 has been answered with 50
\* messages, the first of them the 71st broadcast.
C13_Witness ==
    /\ Len(history[GlobalChatID]) = 120
    /\ request["c1"] # NoFrame /\ request["c1"].limit = 0
    /\ send["c1"] # << >>
    /\ send["c1"][1].type = "CHAT_HISTORY_RESPONSE"
    /\ Len(send["c1"][1].messages) = 50
    /\ send["c1"][1].messages[1].message_id = 71

\* The session whose read pump handled a request of this type in the step.
Handled(c, type) ==
    /\ nframes' = nframes + 1
    /\ request'[c] # NoFrame
    /\ request'[c].n = nframes'
    /\ request'[c].type = type

\* The chat is the global channel, or a private channel that names the
\* user as one of its two members.
MayRead(chatID, userID) ==
    \/ chatID = <<"global_broadcast">>
    \/ /\ Len(chatID) = 3 /\ chatID[1] = "private"
       /\ userID \in {chatID[2], chatID[3]}

\* What a queue holds after the non-blocking enqueue of a frame.
Offered(q, frame) == IF Len(q) < SendCap THEN Append(q, frame) ELSE q

\* C14: access-controlled history.  A GET_CHAT_HISTORY_REQUEST for a chat
\* the requester may not read is answered with ERROR_NOTIFY ACCESS_DENIED
\* and nothing else; and no session's queue ever holds a
\* CHAT_HISTORY_RESPONSE for a chat its user may not read, a stored message
\* of another chat in such a response, or a private notify of a chat its
\* user is not a member of.
C14_AccessControlledHistory ==
    [][\A c \in DirectConns :
          /\ (Handled(c, "GET_CHAT_HISTORY_REQUEST")
                /\ ~MayRead(request'[c].chat_id, cuser[c].id))
                => send' = [send EXCEPT ![c] =
                               Offered(@, ErrorNotify("ACCESS_DENIED"))]
          /\ \A i \in 1..Len(send'[c]) :
                LET frame == send'[c][i]
                IN  /\ frame.type = "CHAT_HISTORY_RESPONSE"
                        => /\ MayRead(frame.chat_id, cuser[c].id)
                           /\ \A k \in 1..Len(frame.messages) :
                                 frame.messages[k].chat_id = frame.chat_id
                    /\ frame.type = "NEW_PRIVATE_MESSAGE_NOTIFY"
                        => cuser[c].id \in {frame.sender_id, frame.receiver_id}]_vars

\* The third user asked for the history of the private chat of the other
\* two, which holds a message, and was sent ACCESS_DENIED.
C14_Witness ==
    /\ <<"private", "A", "B">> \in DOMAIN history
    /\ request["c3"] # NoFrame
    /\ request["c3"].type = "GET_CHAT_HISTORY_REQUEST"
    /\ request["c3"].chat_id = <<"private", "A", "B">>
    /\ send["c3"] = <<ErrorNotify("ACCESS_DENIED")>>

\* The sessions of the hub set that bear a user id.
SessionsOf(userID) == {s \in clients : cuser[s].id = userID}

\* private:<lo>:<hi> for two user ids, lo the one that sorts first.
ChatOf(a, b) ==
    IF StringIndex(a) <= StringIndex(b) THEN <<"private", a, b>>
    ELSE <<"private", b, a>>

\* The records of a chat's file, none when the file does not exist.
Stored(hist, chatID) == IF chatID \in DOMAIN hist THEN hist[chatID] ELSE << >>

C16_AbsentTarget ==
    [][\A c \in DirectConns :
          (Handled(c, "SEND_PRIVATE_MESSAGE_REQUEST")
             /\ SessionsOf(request'[c].target_user_id) = {})
          => /\ send' = [send EXCEPT ![c] =
                            Offered(@, ErrorNotify("USER_NOT_FOUND"))]
             /\ history' = history
             /\ cpc'[c] = "read" /\ connOpen'[c]
             /\ clients' = clients]_vars

\* The first user's session has left the hub set; the second user then
\* sent them a private message and has USER_NOT_FOUND in the queue, and no
\* chat file exists.
C16_Witness ==
    /\ "c1" \notin clients
    /\ request["c2"] # NoFrame
    /\ request["c2"].type = "SEND_PRIVATE_MESSAGE_REQUEST"
    /\ request["c2"].target_user_id = "A"
    /\ send["c2"] = <<ErrorNotify("USER_NOT_FOUND")>>
    /\ DOMAIN history = {}
    /\ cpc["c2"] = "read"

\* The strings user identifiers are drawn from.
IDStrings == {StringOrder[i] : i \in 1..Len(StringOrder)}

\* C17: chat-ID derivation.  For all non-empty a and b,
\* GeneratePrivateChatID(a, b) and GeneratePrivateChatID(b, a) return
\* without error the same identifier private:<lo>:<hi>, lo and hi being a
\* and b in ascending order; with a or b empty it returns an error; it
\* never returns global_broadcast.  Hence every private chat file the
\* server has written, and every private notify it has queued, bears the
\* sorted identifier of its two members whoever of them was the sender.
C17_ChatIDDerivation ==
    /\ \A a \in IDStrings, b \in IDStrings :
          LET ab == GeneratePrivateChatID(a, b)
              ba == GeneratePrivateChatID(b, a)
          IN  /\ (a = "" \/ b = "") <=> ab.err # ""
              /\ ab.err = ""
                   => /\ ab.id = ba.id /\ ba.err = ""
                      /\ Len(ab.id) = 3 /\ ab.id[1] = "private"
                      /\ {ab.id[2], ab.id[3]} = {a, b}
                      /\ StringIndex(ab.id[2]) <= StringIndex(ab.id[3])
                      /\ ab.id # GlobalChatID
    /\ \A chatID \in DOMAIN history :
          chatID # GlobalChatID
          => /\ Len(chatID) = 3 /\ chatID[1] = "private"
             /\ StringIndex(chatID[2]) <= StringIndex(chatID[3])
             /\ \A i \in 1..Len(history[chatID]) :
                   history[chatID][i].sender_id \in {chatID[2], chatID[3]}
    /\ \A c \in DirectConns : \A i \in 1..Len(send[c]) :
          send[c][i].type = "NEW_PRIVATE_MESSAGE_NOTIFY"
          => send[c][i].chat_id
                = ChatOf(send[c][i].sender_id, send[c][i].receiver_id)

\* The chat of the first two users holds a message of each of them: the
\* one sent by the second was filed under private:A:B, not private:B:A.
C17_Witness ==
    /\ <<"private", "A", "B">> \in DOMAIN history
    /\ <<"private", "B", "A">> \notin DOMAIN history
    /\ Len(history[<<"private", "A", "B">>]) = 2
    /\ history[<<"private", "A", "B">>][1].sender_id = "B"
    /\ history[<<"private", "A", "B">>][2].sender_id = "A"

\* The gate read a frame from connection c in this step.
GateHandled(c) == gateFrame'[c] # gateFrame[c]

\* C18: gate error replies.  Every frame read in the gate that is not a
\* REGISTER_REQUEST or LOGIN_REQUEST that decodes makes the gate write an
\* ERROR_NOTIFY to the connection, with code UNEXPECTED_MESSAGE_TYPE for
\* another tag and INVALID_JSON for an envelope that does not decode, and
\* leaves the connection in the gate.
C18_GateErrorReplies ==
    [][\A c \in Conns :
          (GateHandled(c)
             /\ ~(gateFrame'[c].kind = "ok"
                    /\ gateFrame'[c].type \in {"REGISTER_REQUEST", "LOGIN_REQUEST"}))
          => /\ gateReply'[c].type = "ERROR_NOTIFY"
             /\ gateFrame'[c].kind = "badjson"
                   => gateReply'[c] = ErrorNotify("INVALID_JSON")
             /\ (gateFrame'[c].kind = "ok")
                   => gateReply'[c] = ErrorNotify("UNEXPECTED_MESSAGE_TYPE")
             /\ cpc'[c] = "gate" /\ connOpen'[c]]_vars

\* C19: registration does not log in.  After the gate has handled a
\* REGISTER_REQUEST, answered with success or with failure, the connection
\* is still in the gate: it bears no user, is not in the hub set and has no
\* write pump.  A connection leaves the gate for the hub only in a step
\* that handles a LOGIN_REQUEST whose credentials AuthenticateUser accepts,
\* and it then bears the user of those credentials.
C19_RegisterDoesNotLogIn ==
    [][\A c \in Conns :
          /\ (GateHandled(c) /\ gateFrame'[c].type = "REGISTER_REQUEST")
                => /\ cpc'[c] = "gate" /\ connOpen'[c]
                   /\ cuser'[c] = NoUser
                   /\ c \notin clients'
                   /\ wpc'[c] = "off"
          /\ (cpc[c] = "gate" /\ cpc'[c] \notin {"gate", "closed", "timedout"})
                => /\ GateHandled(c)
                   /\ gateFrame'[c].kind = "ok"
                   /\ gateFrame'[c].type = "LOGIN_REQUEST"
                   /\ AuthenticateUser(userStore, gateFrame'[c].username,
                                       gateFrame'[c].password).err = ""
                   /\ cuser'[c] = userStore[gateFrame'[c].username]
                   /\ gateReply'[c] = LoginResponse(TRUE, cuser'[c], "")
          /\ c \in clients' => cuser'[c] # NoUser]_vars

\* The first connection has registered alice and was answered with success;
\* it is still in the gate, while the second connection has logged in as
\* alice and is in the hub set.
C19_Witness ==
    /\ gateFrame["c1"] # NoFrame
    /\ gateFrame["c1"].type = "REGISTER_REQUEST"
    /\ gateFrame["c1"].kind = "ok"
    /\ gateReply["c1"].type = "REGISTER_RESPONSE" /\ gateReply["c1"].success
    /\ cpc["c1"] = "gate" /\ cuser["c1"] = NoUser /\ "c1" \notin clients
    /\ "c2" \in clients /\ cuser["c2"].username = "alice"

\* C20: gate deadline reset.  The read deadline is set anew after every
\* frame the gate handles, so it runs out on a connection only when the
\* peer has sent no frame for the whole span of the deadline: a connection
\* whose frames come less than that span apart is never timed out in the
\* gate.
C20_GateDeadlineReset ==
    \A c \in Conns : cpc[c] = "timedout" => gateQuiet[c] >= GateDeadline

\* C21: protocol errors on an authenticated session.  Every text frame
\* readPump rejects (envelope that does not decode, unknown tag, payload
\* that does not decode for its tag) makes it offer exactly one
\* ERROR_NOTIFY to the sender's queue and to no other, with code
\* UNKNOWN_MESSAGE_TYPE for an unknown tag and INVALID_PAYLOAD for a
\* payload; the read pump stays in its loop and the session in the hub set.
C21_ProtocolErrors ==
    [][\A c \in DirectConns :
          Handled(c, "REJECTED")
          => /\ \E code \in {"INVALID_JSON", "INVALID_PAYLOAD",
                             "UNKNOWN_MESSAGE_TYPE"} :
                   /\ send' = [send EXCEPT ![c] = Offered(@, ErrorNotify(code))]
                   /\ request'[c].kind = "unknown" => code = "UNKNOWN_MESSAGE_TYPE"
                   /\ request'[c].kind = "badpayload" => code = "INVALID_PAYLOAD"
             /\ Len(send[c]) < SendCap => Len(send'[c]) = Len(send[c]) + 1
             /\ cpc'[c] = "read" /\ connOpen'[c]
             /\ clients' = clients /\ c \in clients']_vars

\* The credentials are those of a user of the store.
GoodCredentials(store, username, password) ==
    /\ username \in DOMAIN store
    /\ store[username].hash = GenerateFromPassword(password)

\* C22: credential failures are domain responses and keep the gate open.
\* A REGISTER_REQUEST for a username the store holds is answered with
\* REGISTER_RESPONSE success=false "username is already taken", a
\* LOGIN_REQUEST for an unknown user or with a wrong password with
\* LOGIN_RESPONSE success=false and an error message, never with an
\* ERROR_NOTIFY; the connection is then still in the gate, and a
\* LOGIN_REQUEST with the credentials of a stored user succeeds on a
\* connection whatever failures it has had before.
C22_CredentialFailures ==
    [][\A c \in Conns :
          (GateHandled(c) /\ gateFrame'[c].kind = "ok")
          => LET frame == gateFrame'[c]
             IN  /\ (frame.type = "REGISTER_REQUEST"
                        /\ frame.username \in DOMAIN userStore)
                       => /\ gateReply'[c] = RegisterResponse(FALSE, "",
                                                "username is already taken")
                          /\ cpc'[c] = "gate" /\ connOpen'[c]
                          /\ userStore' = userStore
                 /\ (frame.type = "LOGIN_REQUEST"
                        /\ ~GoodCredentials(userStore, frame.username, frame.password))
                       => /\ gateReply'[c].type = "LOGIN_RESPONSE"
                          /\ ~gateReply'[c].success
                          /\ gateReply'[c].error_message
                                = (IF frame.username \in DOMAIN userStore
                                   THEN "invalid password" ELSE "user not found")
                          /\ cpc'[c] = "gate" /\ connOpen'[c]
                 /\ (frame.type = "LOGIN_REQUEST"
                        /\ GoodCredentials(userStore, frame.username, frame.password))
                       => /\ gateReply'[c]
                                = LoginResponse(TRUE, userStore[frame.username], "")
                          /\ cpc'[c] = "register"
                          /\ cuser'[c] = userStore[frame.username]
                 /\ frame.type \in {"REGISTER_REQUEST", "LOGIN_REQUEST"}
                       => gateReply'[c].type # "ERROR_NOTIFY"]_vars

\* The first connection was refused once, then logged in with good
\* credentials and was registered with the hub.
C22_Witness ==
    /\ gateFails["c1"] = 1
    /\ gateFrame["c1"] # NoFrame /\ gateFrame["c1"].n = 2
    /\ gateFrame["c1"].type = "LOGIN_REQUEST"
    /\ gateReply["c1"].type = "LOGIN_RESPONSE" /\ gateReply["c1"].success
    /\ "c1" \in clients

\* C23: no replay on join.  A broadcast frame enters a session's stream
\* only in the step in which the hub dispatches it, and only if the session
\* is in the hub set at that step, in which case it is offered to the
\* session's queue; so a session the hub registers after it dispatched
\* frame A and before it dispatches frame B is offered B and never gets A.
C23_NoReplayOnJoin ==
    [][\A c \in Conns :
          LET before == delivered[c] \o send[c]
              after == delivered'[c] \o send'[c]
              isNew(f) == /\ IsBroadcast(f)
                          /\ \A k \in 1..Len(before) : before[k] # f
          IN  /\ \A i \in 1..Len(after) :
                    isNew(after[i])
                    => /\ accepted' = Append(accepted, after[i])
                       /\ c \in clients
              /\ (Len(accepted') = Len(accepted) + 1 /\ c \in clients)
                    => send'[c] = Offered(send[c], accepted'[Len(accepted')])
              /\ (Len(accepted') = Len(accepted) + 1 /\ c \notin clients)
                    => send'[c] = send[c]]_vars

\* The hub has dispatched two broadcasts of the first session; the second
\* session, registered in between, has the second one only.
C23_Witness ==
    /\ Len(accepted) = 2
    /\ accepted[1].sender_id = cuser["c1"].id /\ accepted[2].sender_id = cuser["c1"].id
    /\ delivered["c1"] \o send["c1"] = accepted
    /\ "c2" \in clients /\ wpc["c2"] = "run"
    /\ delivered["c2"] \o send["c2"] = <<accepted[2]>>

\* C24: directed-path overflow.  When the handler of a directed request
\* offers a frame (private notify, history reply, error frame) to a session
\* whose outbound queue is full, the frame is dropped and that session is
\* unregistered from the hub as a slow consumer: it leaves the hub set, or
\* its unregistration is under way.
C24_DirectedOverflow ==
    [][\A c \in DirectConns :
          /\ Handled(c, "SEND_PRIVATE_MESSAGE_REQUEST")
                => \A t \in SessionsOf(request'[c].target_user_id) \cup {c} :
                      Len(send[t]) = SendCap
                      => /\ send'[t] = send[t]
                         /\ t \notin clients' \/ slowTask'[t] = "waiting"
          /\ Handled(c, "GET_CHAT_HISTORY_REQUEST")
                => (Len(send[c]) = SendCap
                      => /\ send'[c] = send[c]
                         /\ c \notin clients' \/ slowTask'[c] = "waiting")]_vars

\* C25: identity-file corruption at startup.  Started on a malformed
\* identity file the store is empty, and the file keeps its contents
\* through every AuthenticateUser and GetUserByID call and every
\* RegisterNewUser call that fails: the only step that changes the file is
\* the write of a RegisterNewUser call that succeeds, which leaves the
\* file holding the store.
C25_CorruptFileKept ==
    [][userFile' # userFile
         => \E p \in Procs :
               /\ apc[p] = "regSave" /\ apc'[p] = "regReturn"
               /\ acall[p].err = ""
               /\ userFile' = FileOf(userStore)]_vars

\* C26: a history-append failure does not stop delivery.  When SaveMessage
\* fails in the handler of a TEXT_MESSAGE, the BROADCAST_TEXT_MESSAGE
\* frame is still submitted to the hub, which dispatches it; when it fails
\* in the handler of a SEND_PRIVATE_MESSAGE_REQUEST whose target is in the
\* hub set, the NEW_PRIVATE_MESSAGE_NOTIFY is still offered to the target's
\* queue and to the sender's, with an empty message identifier (the sender
\* is first offered ERROR_NOTIFY HISTORY_SAVE_FAILED).
C26_AppendFailureDelivers ==
    [][/\ (nframes' = nframes + 1 /\ request' = request /\ history' = history)
          => \E c \in Conns :
                /\ cpc[c] = "read" /\ cpc'[c] = "bcast"
                /\ pending'[c].type = "BROADCAST_TEXT_MESSAGE"
                /\ pending'[c].sender_id = cuser[c].id
                /\ pending'[c].n = nframes'
       /\ \A c \in Conns :
          /\ (Handled(c, "SEND_PRIVATE_MESSAGE_REQUEST") /\ history' = history
                /\ SessionsOf(request'[c].target_user_id) # {})
                => \E t \in SessionsOf(request'[c].target_user_id), now \in Times :
                      LET notify == [type |-> "NEW_PRIVATE_MESSAGE_NOTIFY",
                                     chat_id |-> ChatOf(cuser[c].id, cuser[t].id),
                                     message_id |-> NoMessageID,
                                     sender_id |-> cuser[c].id,
                                     sender_name |-> cuser[c].display,
                                     receiver_id |-> cuser[t].id,
                                     text |-> request'[c].text,
                                     timestamp |-> now]
                          warned == [send EXCEPT ![c] =
                                       Offered(@, ErrorNotify("HISTORY_SAVE_FAILED"))]
                          toTarget == [warned EXCEPT ![t] = Offered(@, notify)]
                      IN  send' = [toTarget EXCEPT ![c] = Offered(@, notify)]
          /\ (cpc[c] = "bcast" /\ cpc'[c] = "read")
                => /\ accepted' = Append(accepted, pending[c])
                   /\ \A s \in clients : send'[s] = Offered(send[s], pending[c])]_vars

\* No chat file was ever written, yet the hub has dispatched alice's
\* broadcast to both sessions and bob's private message has reached alice
\* with an empty message identifier.
C26_Witness ==
    /\ DOMAIN history = {}
    /\ Len(accepted) = 1 /\ accepted[1].sender_id = cuser["c1"].id
    /\ Len(send["c1"]) = 2 /\ send["c1"][1] = accepted[1]
    /\ send["c1"][2].type = "NEW_PRIVATE_MESSAGE_NOTIFY"
    /\ send["c1"][2].sender_id = cuser["c2"].id
    /\ send["c1"][2].message_id = NoMessageID
    /\ send["c2"][1] = accepted[1]

\* C28: user list.  A GET_USER_LIST_REQUEST is answered with one
\* USER_LIST_RESPONSE offered to the requester's queue and to no other,
\* and not submitted to the hub's broadcast channel; it lists (user_id,
\* display_name, is_online = true) for the sessions in the hub set when the
\* request is handled, those of the requester's own user left out.
C28_UserList ==
    [][\A c \in DirectConns :
          Handled(c, "GET_USER_LIST_REQUEST")
          => LET others == {s \in clients : cuser[s].id # cuser[c].id}
                 frame == [type |-> "USER_LIST_RESPONSE",
                           users |-> {[user_id |-> cuser[s].id,
                                       display_name |-> cuser[s].display,
                                       is_online |-> TRUE] : s \in others}]
             IN  /\ send' = [send EXCEPT ![c] = Offered(@, frame)]
                 /\ \A entry \in frame.users : entry.user_id # cuser[c].id
                 /\ accepted' = accepted /\ pending' = pending
                 /\ cpc'[c] = "read"]_vars

\* The first user's session has left the hub set; the second user then
\* asked for the list and was sent one that names the third user only.
C28_Witness ==
    /\ "c1" \notin clients /\ "c3" \in clients
    /\ request["c2"] # NoFrame
    /\ request["c2"].type = "GET_USER_LIST_REQUEST"
    /\ Len(send["c2"]) = 1
    /\ send["c2"][1].type = "USER_LIST_RESPONSE"
    /\ {entry.user_id : entry \in send["c2"][1].users} = {"C"}

\* The fields of the payload structures of the protocol, by frame type; none
\* of them is the password hash of a user.
C27_WireFields(type) ==
    CASE type = "REGISTER_RESPONSE" ->
             {"type", "success", "user_id", "error_message"}
      [] type = "LOGIN_RESPONSE" ->
             {"type", "success", "user_id", "display_name", "session_token",
              "error_message"}
      [] type = "ERROR_NOTIFY" -> {"type", "error_code", "error_message"}
      [] type = "USER_LIST_RESPONSE" -> {"type", "users"}
      [] type = "NEW_PRIVATE_MESSAGE_NOTIFY" ->
             {"type", "chat_id", "message_id", "sender_id", "sender_name",
              "receiver_id", "text", "timestamp"}
      [] type = "CHAT_HISTORY_RESPONSE" -> {"type", "chat_id", "messages"}
      [] OTHER -> {"type"}

C27_NoVerifierIn(frame) ==
    /\ DOMAIN frame \subseteq C27_WireFields(frame.type)
    /\ frame.type = "USER_LIST_RESPONSE"
       => \A entry \in frame.users :
              DOMAIN entry = {"user_id", "display_name", "is_online"}
    /\ frame.type = "CHAT_HISTORY_RESPONSE"
       => \A i \in DOMAIN frame.messages :
              DOMAIN frame.messages[i] =
                  {"chat_id", "message_id", "sender_id", "sender_name", "text",
                   "timestamp"}

\* C27: credential verifier confidentiality.  No frame the server sends to
\* a client, be it the gate's reply written to the connection, a frame
\* waiting in a session's queue or one its write pump has written, carries
\* the password hash of a user: each has the fields of its payload
\* structure only, and so has every entry of a user list or of a history.
C27_VerifierConfidential ==
    \A c \in Conns :
        /\ C27_NoVerifierIn(gateReply[c])
        /\ \A i \in DOMAIN send[c] : C27_NoVerifierIn(send[c][i])
        /\ \A i \in DOMAIN delivered[c] : C27_NoVerifierIn(delivered[c][i])

\* A connection was answered a successful LOGIN_RESPONSE, and its session
\* was sent a private message notification and a user list that names
\* another user.
C27_Witness ==
    \E c \in Conns :
        /\ gateFrame[c] # NoFrame
        /\ gateReply[c].type = "LOGIN_RESPONSE" /\ gateReply[c].success
        /\ \E i \in DOMAIN send[c] :
               send[c][i].type = "NEW_PRIVATE_MESSAGE_NOTIFY"
        /\ \E i \in DOMAIN send[c] :
               /\ send[c][i].type = "USER_LIST_RESPONSE"
               /\ send[c][i].users # {}

\* C29: single connection writer.  The gate writes to a connection only
\* while the session's write pump has not been started, and once it has
\* been started only the write pump writes: a step that writes a gate reply
\* is taken in the gate with the pump off before and after it, a step that
\* writes a queued frame is taken by the started pump outside the gate, and
\* the steps of the read pump and of the hub change the queues only.
C29_SingleWriter ==
    [][\A c \in Conns :
          /\ cpc[c] = "gate" => wpc[c] = "off"
          /\ gateReply'[c] # gateReply[c]
             => /\ cpc[c] = "gate"
                /\ wpc[c] = "off" /\ wpc'[c] = "off"
                /\ delivered' = delivered
          /\ delivered'[c] # delivered[c]
             => /\ wpc[c] = "run" /\ cpc[c] # "gate"
                /\ gateReply' = gateReply
                /\ delivered'[c] = Append(delivered[c], Head(send[c]))
          /\ (send'[c] # send[c] /\ delivered'[c] = delivered[c] /\ wpc'[c] = wpc[c])
             => gateReply' = gateReply]_vars

\* A connection was answered its LOGIN_RESPONSE by the gate, and later its
\* write pump wrote a broadcast to it.
C29_Witness ==
    \E c \in Conns :
        /\ gateReply[c].type = "LOGIN_RESPONSE" /\ gateReply[c].success
        /\ wpc[c] = "run"
        /\ delivered[c] # << >>

\* C30: hub set access discipline.  The hub's session set changes only in a
\* step of the hub loop, and while the hub loop carries out a register or
\* an unregister on the set no read pump is inside a roster listing or a
\* directed lookup: the shared lock the readers hold keeps the hub loop's
\* writes out.
C30_HubSetDiscipline ==
    [][/\ clients' # clients => hubWriting # NoConn
       /\ hubWriting # NoConn => hubReaders = {}]_vars

\* p is an initial part of q.
IsPrefixOf(p, q) ==
    /\ Len(p) <= Len(q)
    /\ \A i \in 1..Len(p) : p[i] = q[i]

\* C31: per-session ordering.  A read pump takes a frame only when the one
\* before is done with, its submit to the hub included; and a session's
\* frames are written in the order they were enqueued, whoever enqueued
\* them: every enqueue adds at the back of the queue, and the write pump
\* writes the frame at its front.
C31_SessionOrdering ==
    [][\A c \in Conns :
          /\ (nframes' = nframes + 1
                /\ (request'[c] # request[c] \/ pending'[c] # pending[c]))
             => cpc[c] = "read" /\ pending[c] = NoFrame
          /\ delivered'[c] # delivered[c]
             => /\ send[c] # << >>
                /\ delivered'[c] = Append(delivered[c], Head(send[c]))
                /\ send'[c] = Tail(send[c])
          /\ (send'[c] # send[c] /\ delivered'[c] = delivered[c])
             => \/ send[c] # << >> /\ send'[c] = Tail(send[c])
                \/ IsPrefixOf(send[c], send'[c])]_vars

\* A session was written a private message notification and then a
\* broadcast, enqueued in that order by a read pump and by the hub.
C31_Witness ==
    \E c \in Conns :
        /\ Len(delivered[c]) = 2
        /\ delivered[c][1].type = "NEW_PRIVATE_MESSAGE_NOTIFY"
        /\ delivered[c][2].type = "BROADCAST_TEXT_MESSAGE"

\* C32: one wire frame per queued frame.  Each frame the write pump takes
\* from the queue is written as one text frame that holds the frame's bytes
\* and nothing else: no second frame merged into it, no separator byte
\* after it, and no queued frame passed over.
C32_OneWireFrame ==
    [][\A c \in Conns :
          wire'[c] # wire[c]
          => /\ send[c] # << >>
             /\ send'[c] = Tail(send[c])
             /\ wire'[c] = Append(wire[c], [message |-> Head(send[c]),
                                            newlines |-> 0])]_vars

\* C33: write pump exit.  The write pump writes a close frame only on
\* finding its queue closed and drained, and returns with it; whenever it
\* returns, on the closed queue or on a failed write of a frame or of a
\* ping, it writes nothing more and the connection is closed; and a read
\* pump whose connection is closed reads no further frame: its next step is
\* to leave its loop.
C33_WritePumpExit ==
    [][\A c \in Conns :
          /\ (wire'[c] # wire[c] /\ wire'[c][Len(wire'[c])] = CloseFrame)
             => /\ send[c] = << >> /\ sendClosed[c]
                /\ wire'[c] = Append(wire[c], CloseFrame)
                /\ wpc[c] = "run" /\ wpc'[c] = "done"
          /\ (wpc[c] = "run" /\ wpc'[c] # "run")
             => /\ wpc'[c] = "done"
                /\ ~connOpen'[c]
                /\ delivered'[c] = delivered[c]
                /\ wire'[c] \in {wire[c], Append(wire[c], CloseFrame)}
          /\ wpc[c] = "done"
             => wpc'[c] = "done" /\ wire'[c] = wire[c] /\ delivered'[c] = delivered[c]
          /\ (~connOpen[c] /\ cpc[c] = "read" /\ cpc'[c] # "read")
             => cpc'[c] = "unreg" /\ nframes' = nframes]_vars

\* One session left after a frame was written to it: its write pump found
\* the queue closed, wrote the close frame and returned.  The write pump of
\* the other returned on a failed write, and its read pump then left too.
C33_Witness ==
    /\ Len(wire["c1"]) = 2 /\ wire["c1"][2] = CloseFrame
    /\ wpc["c1"] = "done" /\ ~connOpen["c1"]
    /\ wpc["c2"] = "done" /\ wire["c2"] = << >>
    /\ cpc["c2"] = "done" /\ ~connOpen["c2"]

\* A caller of the history store is between fileMutex.Lock() and the
\* deferred Unlock().
InChatFile(p) == storeCall[p].pc \in {"write", "write2", "read", "unlock"}

\* C34: history store concurrency.  Two callers are never inside the same
\* chat's file at once, so a load finds no half-written record and the
\* bytes of two appends are not mixed: every line of a file decodes but the
\* last one while its append is under way.  And no caller waits for a call
\* on another chat: one that stands at fileMutex.Lock() can take it unless a
\* caller is inside the same chat's file, and one that stands at
\* globalHistoryMutex.Lock() waits only for a caller inside the map lookup.
C34_StoreConcurrency ==
    /\ \A p, q \in Procs :
           (p # q /\ InChatFile(p) /\ InChatFile(q))
               => storeCall[p].chat # storeCall[q].chat
    /\ \A p \in Procs : ~storeCall[p].sawTorn
    /\ \A chat \in DOMAIN history :
           \A i \in 1..Len(history[chat]) :
               ~Decodes(history[chat][i])
                   => /\ i = Len(history[chat])
                      /\ \E p \in Procs : /\ storeCall[p].pc = "write2"
                                          /\ storeCall[p].chat = chat
    /\ \A p \in Procs :
           /\ (storeCall[p].pc = "lockfile" /\ ~ENABLED StoreFileLock(p))
              => \E q \in Procs \ {p} :
                     InChatFile(q) /\ storeCall[q].chat = storeCall[p].chat
           /\ (storeCall[p].pc = "getmutex" /\ ~ENABLED StoreGlobalLock(p))
              => \E q \in Procs \ {p} : storeCall[q].pc = "lookup"

\* One caller is writing a record of the global chat while the other,
\* having asked for the same chat, waits at its mutex; the file already
\* holds a whole record.
C34_Witness ==
    /\ storeCall["p1"].pc = "write2" /\ storeCall["p1"].chat = GlobalChatID
    /\ storeCall["p2"].pc = "lockfile" /\ storeCall["p2"].chat = GlobalChatID
    /\ storeCall["p2"].op = "load"
    /\ Len(history[GlobalChatID]) = 2

\* The records among the lines of a file, in the order of the file.
RECURSIVE C35_Records(_)
C35_Records(lines) ==
    IF lines = << >> THEN << >>
    ELSE IF "message_id" \in DOMAIN Head(lines)
         THEN <<Head(lines)>> \o C35_Records(Tail(lines))
         ELSE C35_Records(Tail(lines))

\* The last limit elements of a sequence.
C35_Last(records, limit) ==
    IF Len(records) > limit
    THEN [i \in 1..limit |-> records[Len(records) - limit + i]]
    ELSE records

\* C35: LoadTail tolerance.  A history request for a chat that has no file
\* is answered with an empty history and no error; for a chat that has one,
\* the lines that do not decode, a cut last line among them, are passed
\* over and the answer holds the last limit of the records of the file, all
\* of them when there are no more than limit, in the order of the file.  An
\* append with the empty chat identifier writes nothing.
C35_LoadTail ==
    [][/\ Handled("c1", "GET_CHAT_HISTORY_REQUEST")
          => LET chat == request'["c1"].chat_id
                 limit == request'["c1"].limit
                 records == IF chat \in DOMAIN history
                            THEN C35_Records(history[chat]) ELSE << >>
             IN  send'["c1"] =
                     Offered(send["c1"],
                             [type |-> "CHAT_HISTORY_RESPONSE", chat_id |-> chat,
                              messages |-> C35_Last(records, limit)])
       /\ (Handled("c1", "APPEND") /\ request'["c1"].chat_id = EmptyChatID)
          => history' = history]_vars

\* C36: no enqueue on a closed queue.  Whenever a read pump that looked up
\* the target of a private message goes on to send the notify, the target's
\* outbound queue has not been closed, however the target's teardown is
\* interleaved with the lookup and the send.
C36_NoSendOnClosed ==
    [][\A c \in Conns :
          (cpc[c] = "notify" /\ cpc'[c] # "notify")
          => ~sendClosed[pending[c].target]]_vars

\* Where the record of the TEXT_MESSAGE numbered n stands in the global
\* chat's file (0: not there).
C37_LogPosition(n) ==
    IF GlobalChatID \notin DOMAIN history THEN 0
    ELSE LET at == {i \in 1..Len(history[GlobalChatID]) :
                       history[GlobalChatID][i].message_id = n}
         IN  IF at = {} THEN 0 ELSE CHOOSE i \in at : TRUE

\* C37: log order matches delivery order.  Of any two broadcasts of
\* different sessions the hub has dispatched, the one dispatched first has
\* its record earlier in the global chat's file.
C37_LogOrderIsDispatchOrder ==
    \A i, j \in 1..Len(accepted) :
        (i < j /\ accepted[i].sender_id # accepted[j].sender_id)
        => C37_LogPosition(accepted[i].n) < C37_LogPosition(accepted[j].n)

\* C38: hub liveness.  Under fair scheduling of the hub every gate waiting
\* on the register channel, every read pump waiting on the broadcast or
\* the unregister channel and every slow-consumer task waiting on the
\* unregister channel is eventually served, whatever the state of the
\* queues.
C38_HubLiveness ==
    \A c \in Conns :
        /\ (cpc[c] = "register") ~> (cpc[c] = "read")
        /\ (cpc[c] = "bcast") ~> (cpc[c] = "read")
        /\ (cpc[c] = "unreg") ~> (cpc[c] = "done")
        /\ (slowTask[c] = "waiting") ~> (slowTask[c] = "done")

\* Every queue is full, a broadcast found them full and its read pump was
\* served all the same.
C38_Witness ==
    /\ \A c \in Conns : Len(send[c]) = SendCap /\ cpc[c] = "read"
    /\ Len(accepted) > SendCap
    /\ \E c \in Conns : slowTask[c] # "none"

\* The hub has removed the session from its set (under SpecEvict every
\* session starts in the set).
C39_Removed(c) == c \notin clients

\* The broadcasts of the session's user the hub has dispatched to another
\* session's queue were all read before the k-th frame.
C39_NoLaterDispatch(c, k) ==
    \A i \in 1..Len(accepted) :
        accepted[i].sender_id = cuser[c].id => accepted[i].n <= k

\* C39: evicted sessions are inert.  From a state in which the hub has
\* removed a session and the session's read pump holds no frame, no
\* TEXT_MESSAGE the session reads from then on is dispatched by the hub,
\* and no step puts a frame into the queue of a removed session.
C39_EvictedInert ==
    /\ \A c \in Conns, k \in 0..MaxFrames :
          []((C39_Removed(c) /\ cpc[c] = "read" /\ nframes = k)
             => []C39_NoLaterDispatch(c, k))
    /\ [][\A c \in Conns :
             C39_Removed(c) => Len(send'[c]) <= Len(send[c])]_vars

\* C40: one session per user.  No two sessions of the hub's set bear the
\* same user id, so a lookup by user id finds at most one session.
C40_OneSessionPerUser ==
    \A s, t \in clients : cuser[s].id = cuser[t].id => s = t

====
